---- MODULE Spec2Model ----
(***************************************************************************)
(* Verification model of MEV1N/prediction: the three prediction engines    *)
(* (variant A: categorical Low/Mid/High, variant B: logistic regression,   *)
(* variant C: 1-hidden-layer network) and the two pages (variant A and     *)
(* variant C of app/page.tsx) that drive them.                             *)
(*                                                                         *)
(* Number representation.  JavaScript numbers are modelled in fixed point: *)
(*   - sequence values, features      : hundredths  (1.75 is 175)          *)
(*   - activations and probabilities  : thousandths (0.55 is 550)          *)
(*   - variant C parameters W1,b1,W2,b2: units of 1e-5 (0.1 is 10000)      *)
(*   - variant B weights              : units of 1e-6 (-3.5 is -3500000)   *)
(*   - variant B probabilities        : units of 1e-4 (toFixed(4))         *)
(* NaN, Infinity and -Infinity are three integers outside every range the  *)
(* model computes with; comparisons go through Lt/Gt/Le so that NaN        *)
(* compares false with everything, as in IEEE 754.                         *)
(***************************************************************************)
EXTENDS Integers, Sequences, FiniteSets, TLC

VARIABLES
    variant,            \* which program runs: "A" page, "C" page, "engineC", "engineB", "pure", "predictA", "weightedMean"
    sequence,           \* page state: useState<number[]>
    prediction,         \* page state: useState<any>(null)
    error,              \* page state: useState("")
    rollingAccuracy,    \* variant A page state
    transitionMatrix,   \* variant A page state: function from "a->b" pairs to counts
    correctPredictions, \* variant C page state
    totalPredictions,   \* variant C page state
    localStorage,       \* the browser's localStorage entries the pages use
    timers,             \* pending setTimeout callbacks, each holding its captured newSequence
    W1, b1, W2, b2,     \* variant C module-level parameters
    weights,            \* variant B module-level weights
    held,               \* engine harness: the Prediction object the caller holds
    snapshot,           \* engine harness: the result of getModelParameters() the caller holds
    arg, ret,           \* pure-function harness: the input and the returned value
    uses,               \* number of updateModel calls that consumed the Prediction object now in prediction
    steps,              \* number of state-growing operations performed so far
    threw,              \* TRUE once a handler has thrown
    last                \* record of the last operation and the values it read and wrote

vars == <<variant, sequence, prediction, error, rollingAccuracy, transitionMatrix,
          correctPredictions, totalPredictions, localStorage, timers,
          W1, b1, W2, b2, weights, held, snapshot, arg, ret, uses, steps, threw, last>>

-----------------------------------------------------------------------------
(* JavaScript numbers *)

NaN == 2000000000
PosInf == 1000000000
NegInf == -1000000000

isNaN(x) == x = NaN
isFinite(x) == x # NaN /\ x # PosInf /\ x # NegInf
Lt(x, y) == ~isNaN(x) /\ ~isNaN(y) /\ x < y
Gt(x, y) == ~isNaN(x) /\ ~isNaN(y) /\ x > y
Le(x, y) == ~isNaN(x) /\ ~isNaN(y) /\ x <= y

Abs(x) == IF x < 0 THEN -x ELSE x
Min(x, y) == IF x < y THEN x ELSE y
Max(x, y) == IF x > y THEN x ELSE y

\* a*b/d rounded to the nearest integer (half up): one fixed-point multiplication
MulDiv(a, b, d) == (2 * a * b + d) \div (2 * d)

\* A finite double so large that its square, and the square of its distance
\* to any value of ordinary size, overflow to Infinity: 1e200. Huge and -Huge
\* stand for every finite value of that order; ordinary values are the others.
Huge == 900000000

IsOrdinary(x) == x \notin {NaN, PosInf, NegInf, Huge, -Huge}
IsInfinite(x) == x \in {PosInf, NegInf}

\* The sum of two huge values of opposite sign depends on their magnitudes,
\* which Huge does not keep; no computation of the model reaches that sum
SumNotKept == CHOOSE x \in {} : TRUE

\* IEEE a * b / d for fixed-point a, b with scale d
Times(a, b, d) ==
    IF isNaN(a) \/ isNaN(b) THEN NaN
    ELSE IF IsOrdinary(a) /\ IsOrdinary(b) THEN MulDiv(a, b, d)
    ELSE IF a = 0 \/ b = 0
         THEN IF IsInfinite(a) \/ IsInfinite(b) THEN NaN ELSE 0
    ELSE IF IsInfinite(a) \/ IsInfinite(b) \/ (~IsOrdinary(a) /\ ~IsOrdinary(b))
         THEN IF (a > 0) = (b > 0) THEN PosInf ELSE NegInf
    ELSE IF (a > 0) = (b > 0) THEN Huge ELSE -Huge

\* IEEE a + b
Plus(a, b) ==
    IF isNaN(a) \/ isNaN(b) THEN NaN
    ELSE IF IsOrdinary(a) /\ IsOrdinary(b) THEN a + b
    ELSE IF IsInfinite(a) THEN (IF IsInfinite(b) /\ b # a THEN NaN ELSE a)
    ELSE IF IsInfinite(b) THEN b
    ELSE IF IsOrdinary(b) THEN a
    ELSE IF IsOrdinary(a) THEN b
    ELSE IF a = b THEN a
    ELSE SumNotKept

\* IEEE a - b
Minus(a, b) ==
    IF isNaN(a) \/ isNaN(b) THEN NaN
    ELSE IF a = b /\ ~IsInfinite(a) THEN 0
    ELSE Plus(a, -b)

\* A slice that keeps one element more than asked for
SliceOneMore(s, n) == IF Len(s) <= n + 1 THEN s ELSE SubSeq(s, Len(s) - n, Len(s))

\* A slice that keeps the oldest n elements instead of the newest
SliceFirst(s, n) == IF Len(s) <= n THEN s ELSE SubSeq(s, 1, n)

\* Array.prototype.slice(-n)
SliceLast(s, n) == IF Len(s) <= n THEN s ELSE SubSeq(s, Len(s) - n + 1, Len(s))

-----------------------------------------------------------------------------
(* Variant A engine: lib/prediction-engine *)

Returned(v) == [threw |-> FALSE, val |-> v]
Thrown == [threw |-> TRUE, val |-> 0]

\* A categorize whose boundaries 2.5 and 3.75 belong to the upper category
categorizeUpperExclusive(x) ==
    IF Lt(x, 100) \/ Gt(x, 500) THEN Thrown
    ELSE IF Lt(x, 250) THEN Returned(0)
    ELSE IF Lt(x, 375) THEN Returned(1)
    ELSE Returned(2)

categorize(x) ==
    IF Lt(x, 100) \/ Gt(x, 500) THEN Thrown
    ELSE IF Le(x, 250) THEN Returned(0)
    ELSE IF Le(x, 375) THEN Returned(1)
    ELSE Returned(2)

\* A validateInput without the check x > 5
validateInputNoUpperBound(x) ==
    IF isNaN(x) THEN [valid |-> FALSE, error |-> "Please enter a valid number"]
    ELSE IF Lt(x, 100) THEN [valid |-> FALSE, error |-> "Value must be between 1.00 and 5.00"]
    ELSE [valid |-> TRUE]

\* A validateInput without the check x < 1
validateInputNoLowerBound(x) ==
    IF isNaN(x) THEN [valid |-> FALSE, error |-> "Please enter a valid number"]
    ELSE IF Gt(x, 500) THEN [valid |-> FALSE, error |-> "Value must be between 1.00 and 5.00"]
    ELSE [valid |-> TRUE]

validateInput(x) ==
    IF isNaN(x) THEN [valid |-> FALSE, error |-> "Please enter a valid number"]
    ELSE IF Lt(x, 100) THEN [valid |-> FALSE, error |-> "Value must be between 1.00 and 5.00"]
    ELSE IF Gt(x, 500) THEN [valid |-> FALSE, error |-> "Value must be between 1.00 and 5.00"]
    ELSE [valid |-> TRUE]

getCategoryLabel(category) ==
    LET labels == <<"Low", "Mid", "High">>
    IN  labels[Max(0, Min(2, category)) + 1]

\* lags.filter((v) => v === a).length
Occurrences(lags, a) == Cardinality({i \in 1..Len(lags) : lags[i] = a})

\* Array.prototype.sort with the comparator count(a) - count(b): a stable sort,
\* ascending by the number of occurrences in lags. Insertion keeps an element
\* behind every element that does not compare greater.
RECURSIVE InsertStable(_, _, _)
InsertStable(sorted, x, lags) ==
    IF sorted = <<>> THEN <<x>>
    ELSE IF Occurrences(lags, sorted[Len(sorted)]) - Occurrences(lags, x) > 0
         THEN Append(InsertStable(SubSeq(sorted, 1, Len(sorted) - 1), x, lags),
                     sorted[Len(sorted)])
         ELSE Append(sorted, x)

RECURSIVE SortFrom(_, _, _)
SortFrom(sorted, i, lags) ==
    IF i > Len(lags) THEN sorted
    ELSE SortFrom(InsertStable(sorted, lags[i], lags), i + 1, lags)

\* A sort that leaves the array as it is
SortNothing(lags) == lags

\* A sort that orders equal counts by state code, the higher code last
RECURSIVE InsertByCountThenCode(_, _, _)
InsertByCountThenCode(sorted, x, lags) ==
    IF sorted = <<>> THEN <<x>>
    ELSE LET y == sorted[Len(sorted)]
         IN  IF \/ Occurrences(lags, y) > Occurrences(lags, x)
                \/ (Occurrences(lags, y) = Occurrences(lags, x) /\ y > x)
             THEN Append(InsertByCountThenCode(SubSeq(sorted, 1, Len(sorted) - 1), x, lags), y)
             ELSE Append(sorted, x)

RECURSIVE SortByCountThenCodeFrom(_, _, _)
SortByCountThenCodeFrom(sorted, i, lags) ==
    IF i > Len(lags) THEN sorted
    ELSE SortByCountThenCodeFrom(InsertByCountThenCode(sorted, lags[i], lags), i + 1, lags)

SortByCountThenCode(lags) == SortByCountThenCodeFrom(<<>>, 1, lags)

SortByCount(lags) == SortFrom(<<>>, 1, lags)

\* ((6 - unique) / 5 * 100).toFixed(0), as the integer the string denotes
calculateConfidence(lags) ==
    LET unique == Cardinality({lags[i] : i \in 1..Len(lags)})
    IN  ((6 - unique) * 100) \div 5

\* sequence.map(categorize): the categories, or Thrown when one element throws
MapCategorize(seq) ==
    IF \E i \in 1..Len(seq) : categorize(seq[i]).threw THEN Thrown
    ELSE Returned([i \in 1..Len(seq) |-> categorize(seq[i]).val])

EmptyMatrix == <<>>

\* matrix[key] = (matrix[key] || 0) + 1
Increment(matrix, key) ==
    (key :> ((IF key \in DOMAIN matrix THEN matrix[key] ELSE 0) + 1)) @@ matrix

\* The counts of two stretches of the loop added key by key
AddCounts(m1, m2) ==
    [k \in (DOMAIN m1) \cup (DOMAIN m2) |->
        (IF k \in DOMAIN m1 THEN m1[k] ELSE 0) + (IF k \in DOMAIN m2 THEN m2[k] ELSE 0)]

\* The loop "for i = lo .. hi-1: matrix[from->to]++" of buildTransitionMatrix.
\* The loop body runs once per i; the stretch lo..hi-1 is split in halves so
\* that the evaluation depth stays logarithmic in the sequence length.
RECURSIVE BuildRange(_, _, _)
BuildRange(states, lo, hi) ==
    IF hi <= lo THEN EmptyMatrix
    ELSE IF hi = lo + 1 THEN Increment(EmptyMatrix, <<states[lo], states[hi]>>)
    ELSE LET mid == (lo + hi) \div 2
         IN  AddCounts(BuildRange(states, lo, mid), BuildRange(states, mid, hi))

\* A buildTransitionMatrix that counts the last transition only
buildTransitionMatrixLastPair(seq) ==
    LET states == MapCategorize(seq)
    IN  IF states.threw THEN Thrown
        ELSE Returned(BuildRange(states.val, Max(1, Len(seq) - 1), Len(seq)))

\* A buildTransitionMatrix whose loop starts at the second element
buildTransitionMatrixFromSecond(seq) ==
    LET states == MapCategorize(seq)
    IN  IF states.threw THEN Thrown
        ELSE Returned(BuildRange(states.val, 2, Len(seq)))

buildTransitionMatrix(seq) ==
    LET states == MapCategorize(seq)
    IN  IF states.threw THEN Thrown
        ELSE Returned(BuildRange(states.val, 1, Len(seq)))

\* lags.sort(...) sorts in place and .pop() removes the last element from lags,
\* so calculateConfidence sees lags without the popped element.
predictNext(seq) ==
    LET states == MapCategorize(seq)
    IN  IF states.threw THEN Thrown
        ELSE LET lags == SliceLast(states.val, 5)
                 sorted == SortByCount(lags)
                 mode == IF sorted = <<>> THEN 0 ELSE sorted[Len(sorted)]
                 popped == IF sorted = <<>> THEN <<>>
                           ELSE SubSeq(sorted, 1, Len(sorted) - 1)
             IN  Returned([isNull |-> FALSE,
                           label |-> getCategoryLabel(mode),
                           confidence |-> calculateConfidence(popped)])

\* array.reduce((a, b) => a + b, 0) over the first n elements
RECURSIVE SumTo(_, _)
SumTo(f, n) == IF n = 0 THEN 0 ELSE SumTo(f, n - 1) + f[n]

\* const midpoints = [1.75, 3.1, 4.4], in hundredths
getCategoryMidpoint(category) ==
    LET midpoints == <<175, 310, 440>>
    IN  midpoints[Max(0, Min(2, category)) + 1]

\* Math.pow(0.8, k) in units of 1e-5
RECURSIVE Pow08(_)
Pow08(k) == IF k = 0 THEN 100000 ELSE MulDiv(Pow08(k - 1), 8, 10)

\* array.filter((x) => categorize(x) === mode), or Thrown when categorize throws
FilterCategory(seq, mode) ==
    IF \E i \in 1..Len(seq) : categorize(seq[i]).threw THEN Thrown
    ELSE Returned(SelectSeq(seq, LAMBDA x : categorize(x).val = mode))

\* The weighted mean of sameCat with the weights 0.8^(length - i), i counted
\* from 0, then toFixed(2) and parseFloat: a value in hundredths
WeightedMeanOf(sameCat) ==
    LET n == Len(sameCat)
        w == [i \in 1..n |-> Pow08(n - (i - 1))]
        products == [i \in 1..n |-> sameCat[i] * w[i]]
    IN  MulDiv(SumTo(products, n), 1, SumTo(w, n))

\* A weightedMean that filters the whole sequence, not its last 10 values
weightedMeanWholeSequence(seq, mode) ==
    LET sameCat == FilterCategory(seq, mode)
    IN  IF sameCat.threw THEN Thrown
        ELSE IF Len(sameCat.val) = 0 THEN Returned(getCategoryMidpoint(mode))
        ELSE Returned(WeightedMeanOf(sameCat.val))

weightedMean(seq, mode) ==
    LET sameCat == FilterCategory(SliceLast(seq, 10), mode)
    IN  IF sameCat.threw THEN Thrown
        ELSE IF Len(sameCat.val) = 0 THEN Returned(getCategoryMidpoint(mode))
        ELSE Returned(WeightedMeanOf(sameCat.val))

-----------------------------------------------------------------------------
(* Variant C engine: lib/predictor-above7 *)

DefaultW1 == <<20000, 50000, 80000, -40000, 60000, 30000, -20000, 50000>>
DefaultB1 == 10000
DefaultW2 == 240000
DefaultB2 == -300000

LEARNING_RATE == 1          \* 0.01, in hundredths
DECAY_FACTOR == 85          \* 0.85, in hundredths
DECISION_THRESHOLD == 550   \* 0.55, in thousandths

\* Math.pow(DECAY_FACTOR, k) in thousandths
RECURSIVE DecayPow(_)
DecayPow(k) == IF k = 0 THEN 1000 ELSE MulDiv(DecayPow(k - 1), DECAY_FACTOR, 100)

\* Math.sqrt on integers: the largest r with r*r <= v
Sqrt(v) == CHOOSE r \in 0..2000 : r * r <= v /\ (r + 1) * (r + 1) > v

\* Linear interpolation in a table of values at the knots 0, step, 2*step, ...
Interpolate(table, step, x) ==
    LET k == x \div step
        r == x % step
    IN  IF k + 1 >= Len(table) THEN table[Len(table)]
        ELSE table[k + 1] + MulDiv(table[k + 2] - table[k + 1], r, step)

\* Math.log(1 + u) for u >= 0 in hundredths, at the knots 0, 0.5, 1, ..., 10
LogTable == <<0, 41, 69, 92, 110, 125, 139, 150, 161, 170, 179,
              187, 195, 201, 208, 214, 220, 225, 230, 235, 240>>
Log1p(u) == Interpolate(LogTable, 50, u)

\* tanh at the knots 0, 0.125, ..., 5 (thousandths); the argument is in 1e-5
TanhTable == <<0, 124, 245, 358, 462, 555, 635, 704, 762, 809, 848, 880, 905,
               925, 941, 954, 964, 972, 978, 983, 987, 990, 992, 994, 995, 996,
               997, 998, 998, 999, 999, 999, 999, 999, 1000, 1000, 1000, 1000,
               1000, 1000, 1000>>
tanh(x) ==
    IF isNaN(x) THEN NaN
    ELSE IF x > 2000000 THEN 1000
    ELSE IF x < -2000000 THEN -1000
    ELSE IF x >= 0 THEN Interpolate(TanhTable, 12500, x)
    ELSE -Interpolate(TanhTable, 12500, -x)

\* sigmoid at the knots 0, 0.25, ..., 8 (thousandths); the argument is in 1e-5
SigmoidTable == <<500, 562, 622, 679, 731, 777, 818, 852, 881, 905, 924, 940,
                  953, 963, 971, 977, 982, 986, 989, 991, 993, 995, 996, 997,
                  998, 998, 998, 999, 999, 999, 999, 1000, 1000>>
sigmoid(x) ==
    IF isNaN(x) THEN NaN
    ELSE IF x > 2000000 THEN 1000
    ELSE IF x < -2000000 THEN 0
    ELSE IF x >= 0 THEN Interpolate(SigmoidTable, 25000, x)
    ELSE 1000 - Interpolate(SigmoidTable, 25000, -x)

\* Number.prototype.toFixed(1) of a value in hundredths, in tenths
ToFixed1(x) ==
    IF ~IsOrdinary(x) THEN x
    ELSE IF x >= 0 THEN (x + 5) \div 10 ELSE -((-x + 5) \div 10)

generateReasoning(mean, std, trend, lastv, probability) ==
    LET f1 == IF Gt(lastv, 700) THEN <<[factor |-> "Last value already exceeds 7", shown |-> ToFixed1(lastv)]>> ELSE <<>>
        f2 == IF Gt(mean, 700) THEN <<[factor |-> "Mean is above 7", shown |-> ToFixed1(mean)]>> ELSE <<>>
        f3 == IF Gt(trend, 200) THEN <<[factor |-> "Strong upward trend", shown |-> ToFixed1(trend)]>> ELSE <<>>
        f4 == IF Gt(std, 300) THEN <<[factor |-> "High volatility", shown |-> ToFixed1(std)]>> ELSE <<>>
        factors == f1 \o f2 \o f3 \o f4
    IN  IF Len(factors) = 0
        THEN IF Gt(probability, 500)
             THEN <<[factor |-> "Model suggests next value will exceed 7 based on pattern analysis.", shown |-> 0]>>
             ELSE <<[factor |-> "Current pattern suggests next value will remain at or below 7.", shown |-> 0]>>
        ELSE factors

\* Steps 1-7 of predictNextAbove7 on a window that holds the value 1e200.
\* The weighted sum and the mean are huge; the squared distance of an ordinary
\* value to the mean overflows, so the variance is Infinity; in a window of
\* 1e200 only, the rounding of the mean leaves a distance of 0 or of a few
\* units in the last place, whose square overflows, depending on the length.
HugeFeatures(recent) ==
    LET N == Len(recent)
        mean == Huge
        std == IF \A i \in 1..N : recent[i] = Huge
               THEN (IF N \in {3, 4, 5, 9} THEN PosInf ELSE 0)
               ELSE PosInf
        trend == Minus(recent[N], recent[1])
        lastv == recent[N]
        logLast == IF lastv = Huge THEN 46052 ELSE Log1p(Abs(lastv))
    IN  <<100, mean, std, trend, lastv, logLast, Times(mean, std, 100), Times(trend, trend, 100)>>

\* Steps 1-7 of predictNextAbove7 on a window of ordinary values
OrdinaryFeatures(seq) ==
    LET N == Min(Len(seq), 10)
        recent == SliceLast(seq, N)
        wts == [i \in 1..N |-> DecayPow(N - (i - 1))]
        totalWeight == SumTo(wts, N)
        weightedSum == SumTo([i \in 1..N |-> recent[i] * wts[i]], N)
        mean == MulDiv(weightedSum, 1, totalWeight)
        variance == MulDiv(SumTo([i \in 1..N |->
                              wts[i] * MulDiv(recent[i] - mean, recent[i] - mean, 100)], N),
                           1, totalWeight)
        std == Sqrt(100 * variance)
        trend == recent[N] - recent[1]
        lastv == recent[N]
        logLast == IF lastv >= 0 THEN Log1p(Abs(lastv)) ELSE -Log1p(Abs(lastv))
        meanStd == MulDiv(mean, std, 100)
        trendSq == MulDiv(trend, trend, 100)
    IN  <<100, mean, std, trend, lastv, logLast, meanStd, trendSq>>

\* Steps 1-7 of predictNextAbove7: the feature vector F (hundredths) of a
\* non-empty sequence of values that are not negative
Features(seq) ==
    LET recent == SliceLast(seq, 10)
    IN  IF \E i \in 1..Len(recent) : recent[i] = Huge
        THEN HugeFeatures(recent)
        ELSE OrdinaryFeatures(seq)

\* Step 8: hidden pre-activation b1 + sum F[i]*W1[i], in 1e-5
RECURSIVE ReduceFrom(_, _, _)
ReduceFrom(initial, terms, n) ==
    IF n = 0 THEN initial ELSE Plus(ReduceFrom(initial, terms, n - 1), terms[n])

HiddenInput(F, w1, bias1) ==
    ReduceFrom(bias1, [i \in 1..8 |-> Times(F[i], w1[i], 100)], 8)

\* Steps 1 to 9 of predictNextAbove7 on a non-empty sequence, with the
\* module's parameters passed as a record
ForwardPass(seq, params) ==
    LET F == Features(seq)
        hidden == tanh(HiddenInput(F, params.W1, params.b1))
        z == Plus(Times(params.W2, hidden, 1000), params.b2)
        probability == sigmoid(z)
    IN  [isNull |-> FALSE,
         willExceed7 |-> Gt(probability, DECISION_THRESHOLD),
         probability |-> probability,
         confidence |-> IF isNaN(probability) THEN NaN ELSE Abs(probability - 500) * 2,
         reasoning |-> generateReasoning(F[2], F[3], F[4], F[5], probability),
         features |-> F,
         hiddenActivation |-> hidden]

NoDataPrediction ==
    [isNull |-> FALSE, willExceed7 |-> FALSE, probability |-> 500,
     confidence |-> 0,
     reasoning |-> <<[factor |-> "No data available for prediction.", shown |-> 0]>>]

\* A predictNextAbove7 that decides at probability > 0.5
predictNextAbove7AtHalf(seq) ==
    IF Len(seq) = 0 THEN NoDataPrediction
    ELSE LET result == ForwardPass(seq, [W1 |-> W1, b1 |-> b1, W2 |-> W2, b2 |-> b2])
         IN  [result EXCEPT !.willExceed7 = result.probability > 500]

predictNextAbove7(seq) ==
    IF Len(seq) = 0 THEN NoDataPrediction
    ELSE ForwardPass(seq, [W1 |-> W1, b1 |-> b1, W2 |-> W2, b2 |-> b2])

HasSnapshot(p) == "features" \in DOMAIN p /\ "hiddenActivation" \in DOMAIN p

\* An updateModel that, without a snapshot, still moves the biases by the error
updateModelGuessing(actualValue, predictionResult, params) ==
    LET y == IF actualValue > 700 THEN 1000 ELSE 0
        err == y - predictionResult.probability
    IN  IF ~HasSnapshot(predictionResult)
        THEN [W1 |-> params.W1, b1 |-> params.b1 + LEARNING_RATE * err,
              W2 |-> params.W2, b2 |-> params.b2 + LEARNING_RATE * err]
        ELSE LET F == predictionResult.features
                 h == predictionResult.hiddenActivation
             IN  [W1 |-> [i \in 1..8 |-> params.W1[i] + MulDiv(LEARNING_RATE * err, F[i], 100)],
                  b1 |-> params.b1 + LEARNING_RATE * err,
                  W2 |-> params.W2 + MulDiv(LEARNING_RATE * err, h, 1000),
                  b2 |-> params.b2 + LEARNING_RATE * err]

\* An updateModel that recomputes the hidden activation from the stored
\* features and the current parameters
updateModelRecomputing(actualValue, predictionResult, params) ==
    LET y == IF actualValue > 700 THEN 1000 ELSE 0
        err == y - predictionResult.probability
    IN  IF ~HasSnapshot(predictionResult) THEN params
        ELSE LET F == predictionResult.features
                 h == tanh(HiddenInput(F, params.W1, params.b1))
             IN  [W1 |-> [i \in 1..8 |-> params.W1[i] + MulDiv(LEARNING_RATE * err, F[i], 100)],
                  b1 |-> params.b1 + LEARNING_RATE * err,
                  W2 |-> params.W2 + MulDiv(LEARNING_RATE * err, h, 1000),
                  b2 |-> params.b2 + LEARNING_RATE * err]

\* The parameters after updateModel(actualValue, predictionResult), as a record
updateModel(actualValue, predictionResult, params) ==
    LET y == IF actualValue > 700 THEN 1000 ELSE 0
        err == Minus(y, predictionResult.probability)
        step == Times(LEARNING_RATE, err, 1)
    IN  IF ~HasSnapshot(predictionResult) THEN params
        ELSE LET F == predictionResult.features
                 h == predictionResult.hiddenActivation
             IN  [W1 |-> [i \in 1..8 |-> Plus(params.W1[i], Times(step, F[i], 100))],
                  b1 |-> Plus(params.b1, step),
                  W2 |-> Plus(params.W2, Times(step, h, 1000)),
                  b2 |-> Plus(params.b2, step)]

\* A reset that restores the weights and leaves the biases as they are
resetModelKeepsBias == [W1 |-> DefaultW1, b1 |-> b1, W2 |-> DefaultW2, b2 |-> b2]

resetModel == [W1 |-> DefaultW1, b1 |-> DefaultB1, W2 |-> DefaultW2, b2 |-> DefaultB2]

getModelParameters == [W1 |-> W1, b1 |-> b1, W2 |-> W2, b2 |-> b2]

\* An import that takes the scalars and leaves W1 as it is
setModelParametersScalars(params) == [W1 |-> W1, b1 |-> params.b1, W2 |-> params.W2, b2 |-> params.b2]

setModelParameters(params) == [W1 |-> params.W1, b1 |-> params.b1, W2 |-> params.W2, b2 |-> params.b2]

-----------------------------------------------------------------------------
(* Variant B engine: lib/spike-predictor *)

DefaultWeights == [intercept |-> -3500000, meanWeight |-> 400000,
                   stdWeight |-> 1100000, slopeWeight |-> 800000]

validateInputB(x) ==
    IF isNaN(x) THEN [valid |-> FALSE, error |-> "Please enter a valid number"]
    ELSE IF ~isFinite(x) THEN [valid |-> FALSE, error |-> "Value must be finite"]
    ELSE [valid |-> TRUE]

calculateMean(values) ==
    IF Len(values) = 0 THEN 0
    ELSE MulDiv(SumTo(values, Len(values)), 1, Len(values))

\* squared differences are in 1e-4, so the root is in hundredths again
calculateStd(values) ==
    IF Len(values) = 0 THEN 0
    ELSE LET mean == calculateMean(values)
             squaredDiffs == [i \in 1..Len(values) |->
                                 (values[i] - mean) * (values[i] - mean)]
             variance == MulDiv(SumTo(squaredDiffs, Len(values)), 1, Len(values))
         IN  Sqrt(variance)

calculateSlope(values) ==
    IF Len(values) < 2 THEN 0 ELSE values[Len(values)] - values[1]

extractFeatures(seq) ==
    LET window == SliceLast(seq, 10)
    IN  IF Len(window) = 0 THEN [mean |-> 0, std |-> 0, slope |-> 0]
        ELSE [mean |-> calculateMean(window),
              std |-> calculateStd(window),
              slope |-> calculateSlope(window)]

\* 1 / (1 + exp(-z)) at the knots 0, 0.125, ..., 16, in 1e-6
SigmoidTableB ==
    <<500000, 531209, 562177, 592667, 622459, 651355, 679179, 705785, 731059,
      754915, 777300, 798187, 817574, 835484, 851953, 867036, 880797, 893309,
      904651, 914901, 924142, 932453, 939913, 946597, 952574, 957912, 962673,
      966914, 970688, 974043, 977023, 979668, 982014, 984094, 985936, 987568,
      989013, 990292, 991423, 992423, 993307, 994089, 994780, 995390, 995930,
      996406, 996827, 997199, 997527, 997817, 998073, 998299, 998499, 998675,
      998830, 998968, 999089, 999196, 999290, 999374, 999447, 999512, 999569,
      999620, 999665, 999704, 999739, 999769, 999797, 999820, 999842, 999860,
      999877, 999891, 999904, 999915, 999925, 999934, 999942, 999949, 999955,
      999960, 999965, 999969, 999972, 999976, 999979, 999981, 999983, 999985,
      999987, 999989, 999990, 999991, 999992, 999993, 999994, 999995, 999995,
      999996, 999996, 999997, 999997, 999997, 999998, 999998, 999998, 999998,
      999999, 999999, 999999, 999999, 999999, 999999, 999999, 999999, 999999,
      1000000, 1000000, 1000000, 1000000, 1000000, 1000000, 1000000, 1000000,
      1000000, 1000000, 1000000, 1000000>>

\* The tangent of the sigmoid at 0, 1/2 + z/4, in place of the sigmoid
sigmoidBLinear(z) == 500000 + z \div 4

\* the argument is in 1e-6 and is looked up at a resolution of 1e-4
sigmoidB(z) ==
    LET p == Interpolate(SigmoidTableB, 1250, MulDiv(Abs(z), 1, 100))
    IN  IF z >= 0 THEN p ELSE 1000000 - p

\* The reasons pushed, in order; the string is their join(", ")
generateReason(features, probability) ==
    LET mean == features.mean
        std == features.std
        slope == features.slope
        r1 == IF mean > 600 THEN <<"rolling mean approaching spike threshold">>
              ELSE IF mean > 400 THEN <<"elevated rolling mean">>
              ELSE IF mean < 200 THEN <<"low rolling mean suggests stability">>
              ELSE <<>>
        r2 == IF std > 200 THEN <<"high volatility detected">>
              ELSE IF std > 100 THEN <<"moderate volatility">>
              ELSE IF std < 50 THEN <<"stable pattern with low variance">>
              ELSE <<>>
        r3 == IF slope > 300 THEN <<"strong upward trend">>
              ELSE IF slope > 100 THEN <<"gradual upward trend">>
              ELSE IF slope < -300 THEN <<"strong downward trend">>
              ELSE IF slope < -100 THEN <<"gradual downward trend">>
              ELSE <<"stable trend">>
        reasons == r1 \o r2 \o r3
    IN  IF Len(reasons) = 0
        THEN IF probability > 500000
             THEN <<"pattern indicators suggest spike likely">>
             ELSE <<"no strong spike indicators detected">>
        ELSE reasons

\* confidence is in 1e-4 of a percent
getCertaintyLabel(confidence) ==
    IF confidence >= 800000 THEN "High Certainty"
    ELSE IF confidence >= 600000 THEN "Medium Certainty"
    ELSE "Low Certainty"

\* A predictNext without the check of the sequence length
predictNextBNoGuard(seq) ==
    LET features == extractFeatures(seq)
        z == weights.intercept
             + MulDiv(weights.meanWeight, features.mean, 100)
             + MulDiv(weights.stdWeight, features.std, 100)
             + MulDiv(weights.slopeWeight, features.slope, 100)
        probability == sigmoidB(z)
        confidence == Min(1000000, Abs(probability - 500000) * 2)
    IN  [isNull |-> FALSE,
         predictedSpike |-> probability > 500000,
         probability |-> MulDiv(probability, 1, 100),
         confidence |-> MulDiv(confidence, 1, 10000),
         certaintyLabel |-> getCertaintyLabel(confidence),
         reason |-> generateReason(features, probability),
         features |-> features]

\* A predictNext that predicts a spike from probability 0.4 on
predictNextBSpikeFrom40(seq) ==
    IF Len(seq) < 2
    THEN [isNull |-> FALSE, predictedSpike |-> FALSE, probability |-> 5000,
          confidence |-> 0, certaintyLabel |-> "Low Certainty",
          reason |-> <<"insufficient data for prediction">>,
          features |-> [mean |-> 0, std |-> 0, slope |-> 0]]
    ELSE LET features == extractFeatures(seq)
             z == weights.intercept
                  + MulDiv(weights.meanWeight, features.mean, 100)
                  + MulDiv(weights.stdWeight, features.std, 100)
                  + MulDiv(weights.slopeWeight, features.slope, 100)
             probability == sigmoidB(z)
             confidence == Min(1000000, Abs(probability - 500000) * 2)
         IN  [isNull |-> FALSE,
              predictedSpike |-> probability > 400000,
              probability |-> MulDiv(probability, 1, 100),
              confidence |-> MulDiv(confidence, 1, 10000),
              certaintyLabel |-> getCertaintyLabel(confidence),
              reason |-> generateReason(features, probability),
              features |-> features]

\* probability: Number(toFixed(4)) in 1e-4; confidence: Number(toFixed(0)) in percent
predictNextB(seq) ==
    IF Len(seq) < 2
    THEN [isNull |-> FALSE, predictedSpike |-> FALSE, probability |-> 5000,
          confidence |-> 0, certaintyLabel |-> "Low Certainty",
          reason |-> <<"insufficient data for prediction">>,
          features |-> [mean |-> 0, std |-> 0, slope |-> 0]]
    ELSE LET features == extractFeatures(seq)
             z == weights.intercept
                  + MulDiv(weights.meanWeight, features.mean, 100)
                  + MulDiv(weights.stdWeight, features.std, 100)
                  + MulDiv(weights.slopeWeight, features.slope, 100)
             probability == sigmoidB(z)
             confidence == Min(1000000, Abs(probability - 500000) * 2)
         IN  [isNull |-> FALSE,
              predictedSpike |-> probability > 500000,
              probability |-> MulDiv(probability, 1, 100),
              confidence |-> MulDiv(confidence, 1, 10000),
              certaintyLabel |-> getCertaintyLabel(confidence),
              reason |-> generateReason(features, probability),
              features |-> features]

\* The weights after updateModel(actualSpike, predicted, features); predicted
\* is in 1e-4, so learningRate * error is error in 1e-6
updateModelB(actualSpike, predicted, features, w) ==
    LET actual == IF actualSpike THEN 10000 ELSE 0
        err == actual - predicted
    IN  [intercept |-> w.intercept + err,
         meanWeight |-> w.meanWeight + MulDiv(err, features.mean, 100),
         stdWeight |-> w.stdWeight + MulDiv(err, features.std, 100),
         slopeWeight |-> w.slopeWeight + MulDiv(err, features.slope, 100)]

resetWeights == [intercept |-> -3500000, meanWeight |-> 400000,
                 stdWeight |-> 1100000, slopeWeight |-> 800000]

\* { ...weights }
getWeights == [intercept |-> weights.intercept, meanWeight |-> weights.meanWeight,
               stdWeight |-> weights.stdWeight, slopeWeight |-> weights.slopeWeight]

-----------------------------------------------------------------------------
(* Bounds of the model *)

MaxSteps == 3       \* appends to the Sequence in one run
BulkLen == 199      \* length of the one long input line
MaxOps == 5         \* calls a caller of an engine makes in one run
MaxCenti == 600     \* largest magnitude, in hundredths, of a pure function's input
MaxSeqLen == 6      \* longest sequence handed to predictNext and buildTransitionMatrix
PriorClicks == 19   \* feedback steps of the earlier session a restored session continues
PriorUpdates == 60  \* updateModel calls of the shorter earlier session whose parameters are imported
OlderLen == 1       \* values of a sequence that precede the last ten handed to weightedMean

-----------------------------------------------------------------------------
(* The browser: localStorage, the form's input line, parseFloat *)

Absent == [has |-> FALSE]
Stored(v) == [has |-> TRUE, v |-> v]
StorageKeys == {"sequence", "rollingAccuracy", "transitionMatrix",
                "modelParameters", "correctPredictions", "totalPredictions",
                "modelWeights"}
setItem(store, key, v) == [store EXCEPT ![key] = Stored(v)]
\* A removeItem that removes nothing
keepItem(store, key) == store

removeItem(store, key) == [store EXCEPT ![key] = Absent]

\* Number.parseFloat on the tokens the model types
parseFloat(token) ==
    CASE token = "1" -> 100
      [] token = "2.5" -> 250
      [] token = "3" -> 300
      [] token = "3.75" -> 375
      [] token = "5" -> 500
      [] token = "5.01" -> 501
      [] token = "0.99" -> 99
      [] token = "7" -> 700
      [] token = "9" -> 900
      [] token = "1e200" -> Huge
      [] token = "Infinity" -> PosInf
      [] token = "-Infinity" -> NegInf
      [] OTHER -> NaN

\* input.split(/[,\s]+/).map((n) => Number.parseFloat(n))
ParseTokens(input) == [i \in 1..Len(input) |-> parseFloat(input[i])]

NotNaN(x) == ~isNaN(x)
NotNaNAndFinite(x) == ~isNaN(x) /\ isFinite(x)

NullPrediction == [isNull |-> TRUE]

-----------------------------------------------------------------------------
(* Variant A page: app/page.tsx, first Home *)

BulkInputA == [k \in 1..BulkLen |-> IF k % 2 = 1 THEN "1" ELSE "5"]

InputsA == {<<"1">>, <<"3.75">>, <<"5", "2.5">>, <<"abc", "3.75">>,
            <<"2.5", "5.01">>, <<"0.99">>, <<"Infinity">>, <<"-Infinity">>,
            <<"abc">>, BulkInputA}

Ranges == {"Low", "Mid", "High"}

\* The save effect: runs after a render in which sequence, rollingAccuracy or
\* transitionMatrix got a new value
SaveEffectA(store, seq, roll, matrix) ==
    LET s1 == IF Len(seq) > 0 THEN setItem(store, "sequence", seq) ELSE store
        s2 == IF Len(roll) > 0 THEN setItem(s1, "rollingAccuracy", roll) ELSE s1
    IN  IF DOMAIN matrix # {} THEN setItem(s2, "transitionMatrix", matrix) ELSE s2

pageCVars == <<correctPredictions, totalPredictions, uses>>
engineVars == <<W1, b1, W2, b2, weights, held, snapshot>>
pureVars == <<arg, ret>>

FirstInvalid(numbers) ==
    CHOOSE i \in 1..Len(numbers) :
        /\ ~validateInput(numbers[i]).valid
        /\ \A j \in 1..(i - 1) : validateInput(numbers[j]).valid

\* The branch of handlePrediction that passed validation
AcceptA(input, numbers, newSequence, result) ==
    /\ error' = ""
    /\ sequence' = newSequence
    /\ prediction' = IF result.threw THEN prediction ELSE result.val
    /\ threw' = (threw \/ result.threw)
    /\ localStorage' = SaveEffectA(localStorage, newSequence,
                                   rollingAccuracy, transitionMatrix)
    /\ steps' = steps + 1
    /\ last' = [op |-> "handlePrediction", appended |-> numbers, rejected |-> FALSE,
                input |-> input]

\* A rejection that leaves the error line as setError("") cleared it
RejectAWithoutMessage(input, message) ==
    /\ error' = ""
    /\ last' = [op |-> "handlePrediction", appended |-> <<>>, rejected |-> TRUE,
                input |-> input]
    /\ UNCHANGED <<sequence, prediction, localStorage, steps, threw>>

\* The branches of handlePrediction that return early
RejectA(input, message) ==
    /\ error' = message
    /\ last' = [op |-> "handlePrediction", appended |-> <<>>, rejected |-> TRUE,
                input |-> input]
    /\ UNCHANGED <<sequence, prediction, localStorage, steps, threw>>

handlePredictionA(input) ==
    /\ variant = "A"
    /\ \E numbers \in {SelectSeq(ParseTokens(input), NotNaN)} :
          IF \E i \in 1..Len(numbers) : ~validateInput(numbers[i]).valid
          THEN RejectA(input, validateInput(numbers[FirstInvalid(numbers)]).error)
          ELSE IF Len(numbers) = 0
          THEN RejectA(input, "Please enter at least one number")
          ELSE /\ steps < MaxSteps
               /\ \E newSequence \in {SliceLast(sequence \o numbers, 200)} :
                  \E result \in {predictNext(newSequence)} :
                      AcceptA(input, numbers, newSequence, result)
    /\ UNCHANGED <<variant, rollingAccuracy, transitionMatrix, timers>>
    /\ UNCHANGED <<pageCVars, engineVars, pureVars>>

\* The range buttons exist only while a prediction is rendered
RangeButtonsShown == ~prediction.isNull

\* Representative values at the upper bounds of the ranges
RepresentativeValueUpperBound(range) ==
    IF range = "Low" THEN 250 ELSE IF range = "Mid" THEN 375 ELSE 500

RepresentativeValue(range) ==
    IF range = "Low" THEN 175 ELSE IF range = "Mid" THEN 310 ELSE 440

handleRangeClick(range) ==
    /\ variant = "A"
    /\ RangeButtonsShown
    /\ steps < MaxSteps
    /\ \E wasCorrect \in {(~prediction.isNull) /\ prediction.label = range} :
       \E newSequence \in {SliceLast(sequence \o <<RepresentativeValue(range)>>, 200)} :
       \E newMatrix \in {buildTransitionMatrix(newSequence)} :
       \E newRollingAccuracy \in {SliceLast(rollingAccuracy \o <<wasCorrect>>, 20)} :
          /\ sequence' = newSequence
          /\ IF newMatrix.threw
             THEN /\ threw' = TRUE
                  /\ UNCHANGED <<transitionMatrix, rollingAccuracy, timers>>
                  /\ localStorage' = SaveEffectA(localStorage, newSequence,
                                                 rollingAccuracy, transitionMatrix)
             ELSE /\ transitionMatrix' = newMatrix.val
                  /\ rollingAccuracy' = newRollingAccuracy
                  /\ timers' = Append(timers, newSequence)
                  /\ localStorage' = SaveEffectA(localStorage, newSequence,
                                                 newRollingAccuracy, newMatrix.val)
                  /\ UNCHANGED threw
    /\ steps' = steps + 1
    /\ last' = [op |-> "handleRangeClick", appended |-> <<RepresentativeValue(range)>>,
                rejected |-> FALSE, range |-> range]
    /\ UNCHANGED <<variant, prediction, error>>
    /\ UNCHANGED <<pageCVars, engineVars, pureVars>>

\* The setTimeout callback of handleRangeClick, 150 ms later
TimerFireA ==
    /\ variant = "A"
    /\ timers # <<>>
    /\ \E newPrediction \in {predictNext(Head(timers))} :
          /\ prediction' = IF newPrediction.threw THEN prediction ELSE newPrediction.val
          /\ threw' = (threw \/ newPrediction.threw)
    /\ timers' = Tail(timers)
    /\ last' = [op |-> "timer", appended |-> <<>>, rejected |-> FALSE,
                fired |-> Head(timers)]
    /\ UNCHANGED <<variant, sequence, error, rollingAccuracy, transitionMatrix,
                   localStorage, steps>>
    /\ UNCHANGED <<pageCVars, engineVars, pureVars>>

handleResetA ==
    /\ variant = "A"
    /\ sequence' = <<>>
    /\ prediction' = NullPrediction
    /\ rollingAccuracy' = <<>>
    /\ transitionMatrix' = EmptyMatrix
    /\ error' = ""
    /\ localStorage' = SaveEffectA(
           removeItem(removeItem(removeItem(localStorage, "sequence"),
                                 "rollingAccuracy"), "transitionMatrix"),
           <<>>, <<>>, EmptyMatrix)
    /\ last' = [op |-> "handleReset", appended |-> <<>>,
                rejected |-> FALSE]
    /\ UNCHANGED <<variant, timers, steps, threw>>
    /\ UNCHANGED <<pageCVars, engineVars, pureVars>>

NextA ==
    \/ \E input \in InputsA : handlePredictionA(input)
    \/ \E range \in Ranges : handleRangeClick(range)
    \/ TimerFireA
    \/ handleResetA

\* An earlier session of the variant A page, as its state is stored: the
\* session began with handlePrediction("3.75") and went on with feedback
\* steps, each a handleRangeClick followed by its timer callback.
SessionStart ==
    [sequence |-> <<375>>, rollingAccuracy |-> <<>>, transitionMatrix |-> EmptyMatrix,
     prediction |-> predictNext(<<375>>).val]

\* handleRangeClick(range) and its timer callback applied to a session
FeedbackStep(session, range) ==
    LET wasCorrect == session.prediction.label = range
        newSequence == SliceLast(session.sequence \o <<RepresentativeValue(range)>>, 200)
    IN  [sequence |-> newSequence,
         rollingAccuracy |-> SliceLast(session.rollingAccuracy \o <<wasCorrect>>, 20),
         transitionMatrix |-> buildTransitionMatrix(newSequence).val,
         prediction |-> predictNext(newSequence).val]

\* The range the user clicks in the i-th feedback step of the earlier session
ClickedRange(i) == IF i % 4 = 0 THEN "High" ELSE IF i % 4 = 3 THEN "Mid" ELSE "Low"

RECURSIVE FeedbackSteps(_, _, _)
FeedbackSteps(session, i, n) ==
    IF i > n THEN session
    ELSE CHOOSE later \in {FeedbackSteps(next, i + 1, n) :
                              next \in {FeedbackStep(session, ClickedRange(i))}} : TRUE

EarlierSession == FeedbackSteps(SessionStart, 1, PriorClicks)

-----------------------------------------------------------------------------
(* Variant C page: app/page.tsx, second Home *)

BulkInputC == [k \in 1..BulkLen |-> IF k % 2 = 1 THEN "3" ELSE "9"]

InputsC == {<<"3">>, <<"9">>, <<"9", "3">>, <<"abc", "7">>, <<"abc">>,
            <<"Infinity">>, <<"1e200", "3">>, BulkInputC}

FeedbackTokens == {"3", "7", "9", "abc", "Infinity"}

Params == [W1 |-> W1, b1 |-> b1, W2 |-> W2, b2 |-> b2]

\* JSON.stringify writes NaN and the infinities as null; every finite number
\* is written so that JSON.parse reads the same number
Null == 1900000000

StringifyNumber(x) == IF isNaN(x) \/ ~isFinite(x) THEN Null ELSE x

\* JSON.stringify(getModelParameters()), as JSON.parse reads it back
StringifyParameters(params) ==
    [W1 |-> [i \in 1..8 |-> StringifyNumber(params.W1[i])],
     b1 |-> StringifyNumber(params.b1),
     W2 |-> StringifyNumber(params.W2),
     b2 |-> StringifyNumber(params.b2)]

\* The three save effects: [sequence], [correctPredictions], [totalPredictions];
\* each runs after a render in which its dependency got a new value
SaveEffectsC(store, seq, correct, correctChanged, total, totalChanged) ==
    LET s1 == IF Len(seq) > 0 THEN setItem(store, "sequence", seq) ELSE store
        s2 == IF correctChanged THEN setItem(s1, "correctPredictions", correct) ELSE s1
    IN  IF totalChanged THEN setItem(s2, "totalPredictions", total) ELSE s2

\* The branch of handlePrediction that found a number
AcceptC(numbers, newSequence) ==
    /\ error' = ""
    /\ sequence' = newSequence
    /\ prediction' = predictNextAbove7(newSequence)
    /\ uses' = 0
    /\ localStorage' = SaveEffectsC(localStorage, newSequence,
                                    correctPredictions, FALSE,
                                    totalPredictions, FALSE)
    /\ steps' = steps + 1
    /\ last' = [op |-> "handlePrediction", appended |-> numbers, rejected |-> FALSE]

handlePredictionC(input) ==
    /\ variant = "C"
    /\ \E numbers \in {SelectSeq(ParseTokens(input), NotNaNAndFinite)} :
          IF Len(numbers) = 0
          THEN /\ error' = "Please enter at least one valid number"
               /\ last' = [op |-> "handlePrediction", appended |-> <<>>,
                           rejected |-> TRUE]
               /\ UNCHANGED <<sequence, prediction, localStorage, steps, uses>>
          ELSE /\ steps < MaxSteps
               /\ \E newSequence \in {SliceLast(sequence \o numbers, 200)} :
                     AcceptC(numbers, newSequence)
    /\ UNCHANGED <<variant, rollingAccuracy, transitionMatrix, timers, threw>>
    /\ UNCHANGED <<correctPredictions, totalPredictions, engineVars, pureVars>>

\* A handleFeedback that counts every feedback as a correct prediction
LearnCCountsAll(actualValue, wasCorrect, updated, newSequence) ==
    /\ correctPredictions' = correctPredictions + 1
    /\ totalPredictions' = totalPredictions + 1
    /\ W1' = updated.W1
    /\ b1' = updated.b1
    /\ W2' = updated.W2
    /\ b2' = updated.b2
    /\ uses' = uses + 1
    /\ sequence' = newSequence
    /\ timers' = Append(timers, newSequence)
    /\ localStorage' = SaveEffectsC(
           setItem(localStorage, "modelParameters", StringifyParameters(updated)),
           newSequence,
           correctPredictions + 1, TRUE,
           totalPredictions + 1, TRUE)
    /\ steps' = steps + 1
    /\ last' = [op |-> "handleFeedback", appended |-> <<actualValue>>,
                rejected |-> FALSE,
                before |-> [correct |-> correctPredictions, total |-> totalPredictions]]

\* handleFeedback with a prediction on display
LearnC(actualValue, wasCorrect, updated, newSequence) ==
    /\ correctPredictions' = correctPredictions + (IF wasCorrect THEN 1 ELSE 0)
    /\ totalPredictions' = totalPredictions + 1
    /\ W1' = updated.W1
    /\ b1' = updated.b1
    /\ W2' = updated.W2
    /\ b2' = updated.b2
    /\ uses' = uses + 1
    /\ sequence' = newSequence
    /\ timers' = Append(timers, newSequence)
    /\ localStorage' = SaveEffectsC(
           setItem(localStorage, "modelParameters", StringifyParameters(updated)),
           newSequence,
           correctPredictions + (IF wasCorrect THEN 1 ELSE 0), wasCorrect,
           totalPredictions + 1, TRUE)
    /\ steps' = steps + 1
    /\ last' = [op |-> "handleFeedback", appended |-> <<actualValue>>,
                rejected |-> FALSE,
                before |-> [correct |-> correctPredictions, total |-> totalPredictions]]

handleFeedback(actualValue) ==
    /\ variant = "C"
    /\ IF prediction.isNull
       THEN /\ last' = [op |-> "handleFeedback", appended |-> <<>>, rejected |-> TRUE,
                        before |-> [correct |-> correctPredictions, total |-> totalPredictions,
                                    sequence |-> sequence, params |-> Params]]
            /\ UNCHANGED <<sequence, correctPredictions, totalPredictions,
                           W1, b1, W2, b2, localStorage, timers, steps, uses>>
       ELSE /\ steps < MaxSteps
            /\ \E wasCorrect \in {prediction.willExceed7 = (actualValue > 700)} :
               \E updated \in {updateModel(actualValue, prediction, Params)} :
               \E newSequence \in {SliceLast(sequence \o <<actualValue>>, 200)} :
                  LearnC(actualValue, wasCorrect, updated, newSequence)
    /\ UNCHANGED <<variant, prediction, error, rollingAccuracy, transitionMatrix, threw>>
    /\ UNCHANGED <<weights, held, snapshot, pureVars>>

\* PredictionResult.handleSubmit: the feedback form, rendered while a
\* prediction is shown, passes only finite numbers on to onFeedback
handleSubmit(token) ==
    LET value == parseFloat(token)
    IN  /\ variant = "C"
        /\ ~prediction.isNull
        /\ IF isNaN(value) \/ ~isFinite(value)
           THEN UNCHANGED vars
           ELSE handleFeedback(value)

\* The setTimeout callback of handleFeedback, 150 ms later
TimerFireC ==
    /\ variant = "C"
    /\ timers # <<>>
    /\ prediction' = predictNextAbove7(Head(timers))
    /\ uses' = 0
    /\ timers' = Tail(timers)
    /\ last' = [op |-> "timer", appended |-> <<>>, rejected |-> FALSE,
                fired |-> Head(timers)]
    /\ UNCHANGED <<variant, sequence, error, rollingAccuracy, transitionMatrix,
                   correctPredictions, totalPredictions, localStorage, steps, threw>>
    /\ UNCHANGED <<engineVars, pureVars>>

handleResetC ==
    LET cleared == removeItem(removeItem(removeItem(removeItem(localStorage,
                       "sequence"), "modelParameters"), "correctPredictions"),
                       "totalPredictions")
    IN  /\ variant = "C"
        /\ sequence' = <<>>
        /\ prediction' = NullPrediction
        /\ uses' = 0
        /\ W1' = resetModel.W1
        /\ b1' = resetModel.b1
        /\ W2' = resetModel.W2
        /\ b2' = resetModel.b2
        /\ correctPredictions' = 0
        /\ totalPredictions' = 0
        /\ error' = ""
        /\ localStorage' = SaveEffectsC(cleared, <<>>, 0, correctPredictions # 0,
                                        0, totalPredictions # 0)
        /\ last' = [op |-> "handleReset", appended |-> <<>>,
                    rejected |-> FALSE]
        /\ UNCHANGED <<variant, rollingAccuracy, transitionMatrix, timers, steps, threw>>
        /\ UNCHANGED <<weights, held, snapshot, pureVars>>

NextC ==
    \/ \E input \in InputsC : handlePredictionC(input)
    \/ \E token \in FeedbackTokens : handleSubmit(token)
    \/ TimerFireC
    \/ handleResetC

-----------------------------------------------------------------------------
(* A caller of the variant C engine: lib/predictor-above7's exported API *)

EngineSeqsC == {<<>>, <<0>>, <<300>>, <<300, 900>>, <<900, 800, 950>>}
Actuals == {300, 700, 900}

pageVars == <<sequence, prediction, error, rollingAccuracy, transitionMatrix,
              correctPredictions, totalPredictions, timers, uses, threw>>

CallPredictNextAbove7(seq) ==
    /\ variant = "engineC"
    /\ steps < MaxOps
    /\ held' = predictNextAbove7(seq)
    /\ steps' = steps + 1
    /\ last' = [op |-> "predictNextAbove7", prev |-> last.op]
    /\ UNCHANGED <<variant, W1, b1, W2, b2, weights, snapshot, localStorage>>
    /\ UNCHANGED <<pageVars, pureVars>>

\* The call repeats the previous call: updateModel again, with the same arguments
Repeats(actual, pred) ==
    last.op = "updateModel" /\ last.actual = actual /\ last.pred = pred

\* What the caller's log keeps of an updateModel call: the arguments, the
\* parameters before the call (and before the previous call when it repeats
\* it), and the snapshot of the parameters the caller held at the call
UpdateLog(actual, pred, params) ==
    [op |-> "updateModel", prev |-> last.op, actual |-> actual, pred |-> pred,
     before |-> params, repeat |-> Repeats(actual, pred),
     before2 |-> IF Repeats(actual, pred) THEN last.before ELSE params,
     saved |-> snapshot]

\* A caller that skips an update it has already applied
CallUpdateModelOnce(actualValue) ==
    /\ variant = "engineC"
    /\ steps < MaxOps
    /\ ~held.isNull
    /\ \E updated \in {IF Repeats(actualValue, held) THEN Params
                        ELSE updateModel(actualValue, held, Params)} :
          /\ W1' = updated.W1
          /\ b1' = updated.b1
          /\ W2' = updated.W2
          /\ b2' = updated.b2
    /\ steps' = steps + 1
    /\ last' = UpdateLog(actualValue, held, Params)
    /\ UNCHANGED <<variant, weights, held, snapshot, localStorage>>
    /\ UNCHANGED <<pageVars, pureVars>>

CallUpdateModel(actualValue) ==
    /\ variant = "engineC"
    /\ steps < MaxOps
    /\ ~held.isNull
    /\ \E updated \in {updateModel(actualValue, held, Params)} :
          /\ W1' = updated.W1
          /\ b1' = updated.b1
          /\ W2' = updated.W2
          /\ b2' = updated.b2
    /\ steps' = steps + 1
    /\ last' = UpdateLog(actualValue, held, Params)
    /\ UNCHANGED <<variant, weights, held, snapshot, localStorage>>
    /\ UNCHANGED <<pageVars, pureVars>>

CallResetModel ==
    /\ variant = "engineC"
    /\ steps < MaxOps
    /\ W1' = resetModel.W1
    /\ b1' = resetModel.b1
    /\ W2' = resetModel.W2
    /\ b2' = resetModel.b2
    /\ steps' = steps + 1
    /\ last' = [op |-> "resetModel", prev |-> last.op, before |-> Params,
                shown |-> [seq \in EngineSeqsC |-> predictNextAbove7(seq)]]
    /\ UNCHANGED <<variant, weights, held, snapshot, localStorage>>
    /\ UNCHANGED <<pageVars, pureVars>>

CallGetModelParameters ==
    /\ variant = "engineC"
    /\ steps < MaxOps
    /\ snapshot' = Stored(getModelParameters)
    /\ steps' = steps + 1
    /\ last' = [op |-> "getModelParameters", prev |-> last.op]
    /\ UNCHANGED <<variant, W1, b1, W2, b2, weights, held, localStorage>>
    /\ UNCHANGED <<pageVars, pureVars>>

CallSetModelParameters ==
    /\ variant = "engineC"
    /\ steps < MaxOps
    /\ snapshot.has
    /\ \E imported \in {setModelParameters(snapshot.v)} :
          /\ W1' = imported.W1
          /\ b1' = imported.b1
          /\ W2' = imported.W2
          /\ b2' = imported.b2
    /\ steps' = steps + 1
    /\ last' = [op |-> "setModelParameters", prev |-> last.op, prev2 |-> last.prev,
                before |-> Params,
                beforeReset |-> IF last.op = "resetModel" THEN last.before ELSE Params,
                shownBeforeReset |-> IF last.op = "resetModel" THEN last.shown
                                     ELSE <<>>]
    /\ UNCHANGED <<variant, weights, held, snapshot, localStorage>>
    /\ UNCHANGED <<pageVars, pureVars>>

\* An earlier session of a caller: predictNextAbove7 on <<9, 8, 9.5>> and
\* updateModel with the actual value 9, over and over
TrainingRound(params) ==
    updateModel(900, ForwardPass(<<900, 800, 950>>, params), params)

\* n rounds, one after the other; the rounds are split in halves so that the
\* evaluation depth stays logarithmic in n
RECURSIVE TrainingRounds(_, _)
TrainingRounds(params, n) ==
    IF n = 0 THEN params
    ELSE IF n = 1 THEN TrainingRound(params)
    ELSE CHOOSE later \in {TrainingRounds(half, n - n \div 2) :
                              half \in {TrainingRounds(params, n \div 2)}} : TRUE

\* The parameters that earlier session exported with getModelParameters
\* after n rounds
TrainedParameters(n) == TrainingRounds(resetModel, n)

NextEngineC ==
    \/ \E seq \in EngineSeqsC : CallPredictNextAbove7(seq)
    \/ \E actualValue \in Actuals : CallUpdateModel(actualValue)
    \/ CallResetModel
    \/ CallGetModelParameters
    \/ CallSetModelParameters

-----------------------------------------------------------------------------
(* A caller of the variant B engine: lib/spike-predictor's exported API *)

EngineSeqsB == {<<>>, <<300>>, <<300, 900>>, <<900, 800, 950>>,
                <<875, 875>>, <<483, 569>>, <<1420, 1420>>}

saveWeights(store, w) == setItem(store, "modelWeights", w)

\* weights = JSON.parse(stored) when something is stored
loadWeights(store, w) ==
    IF store["modelWeights"].has THEN store["modelWeights"].v ELSE w

CallPredictNextB(seq) ==
    /\ variant = "engineB"
    /\ steps < MaxOps
    /\ held' = predictNextB(seq)
    /\ steps' = steps + 1
    /\ last' = [op |-> "predictNext", prev |-> last.op, seq |-> seq, before |-> weights]
    /\ UNCHANGED <<variant, W1, b1, W2, b2, weights, snapshot, localStorage>>
    /\ UNCHANGED <<pageVars, pureVars>>

CallUpdateModelB(actualSpike) ==
    /\ variant = "engineB"
    /\ steps < MaxOps
    /\ ~held.isNull
    /\ \E updated \in {updateModelB(actualSpike, held.probability, held.features,
                                    weights)} :
          /\ weights' = updated
          /\ localStorage' = saveWeights(localStorage, updated)
    /\ steps' = steps + 1
    /\ last' = UpdateLog(actualSpike, held, weights)
    /\ UNCHANGED <<variant, W1, b1, W2, b2, held, snapshot>>
    /\ UNCHANGED <<pageVars, pureVars>>

CallResetWeights ==
    /\ variant = "engineB"
    /\ steps < MaxOps
    /\ weights' = resetWeights
    /\ localStorage' = saveWeights(localStorage, resetWeights)
    /\ steps' = steps + 1
    /\ last' = [op |-> "resetWeights", prev |-> last.op, before |-> weights]
    /\ UNCHANGED <<variant, W1, b1, W2, b2, held, snapshot>>
    /\ UNCHANGED <<pageVars, pureVars>>

CallLoadWeights ==
    /\ variant = "engineB"
    /\ steps < MaxOps
    /\ weights' = loadWeights(localStorage, weights)
    /\ steps' = steps + 1
    /\ last' = [op |-> "loadWeights", prev |-> last.op, before |-> weights]
    /\ UNCHANGED <<variant, W1, b1, W2, b2, held, snapshot, localStorage>>
    /\ UNCHANGED <<pageVars, pureVars>>

CallGetWeights ==
    /\ variant = "engineB"
    /\ steps < MaxOps
    /\ snapshot' = Stored(getWeights)
    /\ steps' = steps + 1
    /\ last' = [op |-> "getWeights", prev |-> last.op]
    /\ UNCHANGED <<variant, W1, b1, W2, b2, weights, held, localStorage>>
    /\ UNCHANGED <<pageVars, pureVars>>

\* The page is loaded again: the module is evaluated anew (its weights are the
\* initial ones), localStorage is kept
ReloadModule ==
    /\ variant = "engineB"
    /\ steps < MaxOps
    /\ weights' = DefaultWeights
    /\ held' = NullPrediction
    /\ snapshot' = Absent
    /\ steps' = steps + 1
    /\ last' = [op |-> "reload", prev |-> last.op, before |-> weights]
    /\ UNCHANGED <<variant, W1, b1, W2, b2, localStorage>>
    /\ UNCHANGED <<pageVars, pureVars>>

NextEngineB ==
    \/ \E seq \in EngineSeqsB : CallPredictNextB(seq)
    \/ \E actualSpike \in BOOLEAN : CallUpdateModelB(actualSpike)
    \/ CallResetWeights
    \/ CallLoadWeights
    \/ CallGetWeights
    \/ ReloadModule

-----------------------------------------------------------------------------
(* The pure functions of the variant A engine applied to one input *)

PureInputs == (-MaxCenti..MaxCenti) \cup {NaN, PosInf, NegInf}

ApplyCategorize ==
    /\ variant = "pure"
    /\ ret' = [fn |-> "categorize", out |-> categorize(arg)]
    /\ UNCHANGED <<variant, arg, steps, last, localStorage>>
    /\ UNCHANGED <<pageVars, engineVars>>

ApplyValidateInput ==
    /\ variant = "pure"
    /\ ret' = [fn |-> "validateInput", out |-> validateInput(arg)]
    /\ UNCHANGED <<variant, arg, steps, last, localStorage>>
    /\ UNCHANGED <<pageVars, engineVars>>

NextPure == ApplyCategorize \/ ApplyValidateInput

-----------------------------------------------------------------------------
(* The variant A engine applied to one sequence of valid values *)

\* One value of each category: the representative values of the range buttons
SeqValues == {RepresentativeValue(range) : range \in Ranges}

SeqsA == UNION {[1..n -> SeqValues] : n \in 0..MaxSeqLen}

ApplyPredictNext ==
    /\ variant = "predictA"
    /\ ret' = [fn |-> "predictNext", out |-> predictNext(arg)]
    /\ UNCHANGED <<variant, arg, steps, last, localStorage>>
    /\ UNCHANGED <<pageVars, engineVars>>

ApplyBuildTransitionMatrix ==
    /\ variant = "predictA"
    /\ ret' = [fn |-> "buildTransitionMatrix", out |-> buildTransitionMatrix(arg)]
    /\ UNCHANGED <<variant, arg, steps, last, localStorage>>
    /\ UNCHANGED <<pageVars, engineVars>>

NextPredictA == ApplyPredictNext \/ ApplyBuildTransitionMatrix

-----------------------------------------------------------------------------
(* weightedMean applied to one sequence of valid values and one state code *)

\* Boundary, interior and representative values of the three categories
MeanValues == {100, 175, 250, 310, 375, 440}

\* The last ten values of a long sequence: two values in alternation
RecentSeqs == {[i \in 1..10 |-> IF i % 2 = 1 THEN a ELSE b] : a, b \in MeanValues}

SeqsOver(values, n) == UNION {[1..k -> values] : k \in 0..n}

\* Sequences shorter than the window, and windows preceded by older values
MeanSeqs ==
    SeqsOver(MeanValues, 2)
      \cup {older \o recent : older \in SeqsOver(MeanValues, OlderLen), recent \in RecentSeqs}

CategoryCodes == 0..2

ApplyWeightedMean(mode) ==
    /\ variant = "weightedMean"
    /\ ret' = [fn |-> "weightedMean", mode |-> mode, out |-> weightedMean(arg, mode)]
    /\ UNCHANGED <<variant, arg, steps, last, localStorage>>
    /\ UNCHANGED <<pageVars, engineVars>>

NextWeightedMean == \E mode \in CategoryCodes : ApplyWeightedMean(mode)

-----------------------------------------------------------------------------
(* Specifications *)

\* Module state as loaded, page state as constructed by useState
InitCommon ==
    /\ sequence = <<>>
    /\ prediction = NullPrediction
    /\ error = ""
    /\ rollingAccuracy = <<>>
    /\ transitionMatrix = EmptyMatrix
    /\ correctPredictions = 0
    /\ totalPredictions = 0
    /\ timers = <<>>
    /\ W1 = DefaultW1
    /\ b1 = DefaultB1
    /\ W2 = DefaultW2
    /\ b2 = DefaultB2
    /\ weights = DefaultWeights
    /\ held = NullPrediction
    /\ snapshot = Absent
    /\ ret = Absent
    /\ uses = 0
    /\ steps = 0
    /\ threw = FALSE
    /\ last = [op |-> "init", prev |-> "init", appended |-> <<>>, rejected |-> FALSE]

EmptyStorage == [k \in StorageKeys |-> Absent]

\* A fresh session: nothing stored. On mount the variant C page's
\* [correctPredictions] and [totalPredictions] effects store the zeros.
Init ==
    /\ variant \in {"A", "C"}
    /\ InitCommon
    /\ arg = 0
    /\ localStorage = IF variant = "A" THEN EmptyStorage
                      ELSE setItem(setItem(EmptyStorage, "correctPredictions", 0),
                                   "totalPredictions", 0)

Next == NextA \/ NextC

Spec == Init /\ [][Next]_vars

\* The engines as loaded, driven through their exported functions
InitEngine ==
    /\ variant \in {"engineC", "engineB"}
    /\ InitCommon
    /\ arg = 0
    /\ localStorage = EmptyStorage

NextEngine == NextEngineC \/ NextEngineB

SpecEngine == InitEngine /\ [][NextEngine]_vars

\* The variant C engine as loaded, with the parameters of an earlier session
\* imported through setModelParameters
InitTrainedC ==
    /\ variant = "engineC"
    /\ \E n \in {PriorUpdates, 2 * PriorUpdates} :
       \E imported \in {setModelParameters(TrainedParameters(n))} :
          /\ W1 = imported.W1
          /\ b1 = imported.b1
          /\ W2 = imported.W2
          /\ b2 = imported.b2
    /\ sequence = <<>>
    /\ prediction = NullPrediction
    /\ error = ""
    /\ rollingAccuracy = <<>>
    /\ transitionMatrix = EmptyMatrix
    /\ correctPredictions = 0
    /\ totalPredictions = 0
    /\ timers = <<>>
    /\ weights = DefaultWeights
    /\ held = NullPrediction
    /\ snapshot = Absent
    /\ arg = 0
    /\ ret = Absent
    /\ uses = 0
    /\ steps = 0
    /\ threw = FALSE
    /\ localStorage = EmptyStorage
    /\ last = [op |-> "init", prev |-> "init", appended |-> <<>>, rejected |-> FALSE]

SpecTrainedC == InitTrainedC /\ [][NextEngineC]_vars

\* One input, then any of the pure functions applied to it
InitPure ==
    /\ variant = "pure"
    /\ InitCommon
    /\ arg \in PureInputs
    /\ localStorage = EmptyStorage

SpecPure == InitPure /\ [][NextPure]_vars

\* The variant A page mounted over the stored state of an earlier session:
\* the load effect restores sequence, rollingAccuracy and transitionMatrix;
\* the prediction is not stored and starts as null.
InitRestoredA ==
    /\ variant = "A"
    /\ sequence = EarlierSession.sequence
    /\ rollingAccuracy = EarlierSession.rollingAccuracy
    /\ transitionMatrix = EarlierSession.transitionMatrix
    /\ localStorage = SaveEffectA(EmptyStorage, EarlierSession.sequence,
                                  EarlierSession.rollingAccuracy,
                                  EarlierSession.transitionMatrix)
    /\ prediction = NullPrediction
    /\ error = ""
    /\ correctPredictions = 0
    /\ totalPredictions = 0
    /\ timers = <<>>
    /\ W1 = DefaultW1
    /\ b1 = DefaultB1
    /\ W2 = DefaultW2
    /\ b2 = DefaultB2
    /\ weights = DefaultWeights
    /\ held = NullPrediction
    /\ snapshot = Absent
    /\ arg = 0
    /\ ret = Absent
    /\ uses = 0
    /\ steps = 0
    /\ threw = FALSE
    /\ last = [op |-> "init", prev |-> "init", appended |-> <<>>, rejected |-> FALSE]

SpecRestoredA == InitRestoredA /\ [][NextA]_vars

\* One sequence of valid values, then either function of the variant A engine
InitPredictA ==
    /\ variant = "predictA"
    /\ InitCommon
    /\ arg \in SeqsA
    /\ localStorage = EmptyStorage

SpecPredictA == InitPredictA /\ [][NextPredictA]_vars

\* One sequence, then weightedMean applied to it with any state code
InitWeightedMean ==
    /\ variant = "weightedMean"
    /\ InitCommon
    /\ arg \in MeanSeqs
    /\ localStorage = EmptyStorage

SpecWeightedMean == InitWeightedMean /\ [][NextWeightedMean]_vars

-----------------------------------------------------------------------------
(* Properties *)

AppendOps == {"handlePrediction", "handleRangeClick", "handleFeedback"}

\* C1: on the variant A page every value held in the Sequence is within
\* [1, 5] in every reachable state, and categorize has never thrown inside
\* predictNext or buildTransitionMatrix.
C1_SequenceWithinRange ==
    variant = "A" =>
        /\ \A i \in 1..Len(sequence) : sequence[i] >= 100 /\ sequence[i] <= 500
        /\ ~threw

\* C1 happens: an input was rejected while the Sequence held values, after
\* a range click had rebuilt the matrix
C1_Witness ==
    /\ variant = "A"
    /\ last.op = "handlePrediction"
    /\ last.rejected
    /\ Len(sequence) > 1
    /\ DOMAIN transitionMatrix # {}

\* C2: on both pages every append (handlePrediction, handleRangeClick,
\* handleFeedback) sets the Sequence to the last 200 elements of the old
\* Sequence followed by the new values in input order; the length never
\* exceeds 200, and beyond the cap exactly the oldest elements are dropped.
C2_AppendKeepsLast200 ==
    [][(last'.op \in AppendOps /\ ~last'.rejected) =>
         LET all == sequence \o last'.appended
             drop == IF Len(all) > 200 THEN Len(all) - 200 ELSE 0
         IN  /\ Len(sequence') = Len(all) - drop
             /\ Len(sequence') <= 200
             /\ \A i \in 1..Len(sequence') : sequence'[i] = all[i + drop]]_vars

\* C2 happens: two numbers appended to a Sequence of 199 evicted the
\* oldest element
C2_Witness ==
    /\ variant = "A"
    /\ last.op = "handlePrediction"
    /\ last.appended = <<500, 250>>
    /\ Len(sequence) = 200
    /\ sequence[1] = 500
    /\ sequence[199] = 500
    /\ sequence[200] = 250

\* C3: on the variant C page updateModel is never called twice with the
\* same Prediction object: no Prediction is consumed by more than one
\* learning step.
C3_PredictionConsumedOnce == variant = "C" => uses <= 1

\* C4: the reset restores exactly the fixed default parameters, whatever
\* updates and imports came before: resetModel gives
\* W1=[0.2,0.5,0.8,-0.4,0.6,0.3,-0.2,0.5], b1=0.1, W2=2.4, b2=-3.0 and
\* resetWeights gives intercept -3.5, meanWeight 0.4, stdWeight 1.1,
\* slopeWeight 0.8.
C4_ResetRestoresDefaults ==
    /\ last.op = "resetModel" =>
           /\ W1 = <<20000, 50000, 80000, -40000, 60000, 30000, -20000, 50000>>
           /\ b1 = 10000
           /\ W2 = 240000
           /\ b2 = -300000
    /\ last.op = "resetWeights" =>
           /\ weights.intercept = -3500000
           /\ weights.meanWeight = 400000
           /\ weights.stdWeight = 1100000
           /\ weights.slopeWeight = 800000

\* C4 happens: resetModel ran on parameters that updates had moved and an
\* import had set
C4_Witness ==
    /\ last.op = "resetModel"
    /\ last.prev = "setModelParameters"
    /\ last.before.b1 # 10000
    /\ last.before.W1 # <<20000, 50000, 80000, -40000, 60000, 30000, -20000, 50000>>

\* C5: handleReset clears the persisted session state in one step. After
\* it the Sequence is empty; on the variant A page RollingOutcomes and the
\* TransitionMatrix are empty; on the variant C page both counters are zero
\* and the parameters are the defaults; and the persisted copies are removed
\* or hold the same empty or default values.
C5_ResetClearsEverything ==
    last.op = "handleReset" =>
        /\ sequence = <<>>
        /\ localStorage["sequence"] = Absent
        /\ variant = "A" =>
               /\ rollingAccuracy = <<>>
               /\ DOMAIN transitionMatrix = {}
               /\ localStorage["rollingAccuracy"] = Absent
               /\ localStorage["transitionMatrix"] = Absent
        /\ variant = "C" =>
               /\ correctPredictions = 0
               /\ totalPredictions = 0
               /\ W1 = <<20000, 50000, 80000, -40000, 60000, 30000, -20000, 50000>>
               /\ b1 = 10000
               /\ W2 = 240000
               /\ b2 = -300000
               /\ localStorage["modelParameters"] = Absent
               /\ localStorage["correctPredictions"] \in {Absent, Stored(0)}
               /\ localStorage["totalPredictions"] \in {Absent, Stored(0)}

\* C5 happens: the variant C page was reset after a feedback had moved
\* the parameters, counted a prediction and stored all of it
C5_Witness ==
    /\ variant = "C"
    /\ last.op = "handleReset"
    /\ steps >= 2
    /\ timers # <<>>
    /\ localStorage["totalPredictions"] = Stored(0)

\* C6: variant C updateModel called with a Prediction that lacks features
\* or hiddenActivation leaves W1, b1, W2 and b2 unchanged and returns
\* normally.
C6_UpdateWithoutSnapshotSkipped ==
    (variant = "engineC" /\ last.op = "updateModel" /\ ~HasSnapshot(last.pred)) =>
        /\ W1 = last.before.W1
        /\ b1 = last.before.b1
        /\ W2 = last.before.W2
        /\ b2 = last.before.b2
        /\ ~threw

\* C6 happens: updateModel got the neutral default of an empty sequence
\* while the parameters were not the initial ones
C6_Witness ==
    /\ variant = "engineC"
    /\ last.op = "updateModel"
    /\ ~HasSnapshot(last.pred)
    /\ last.pred.probability = 500
    /\ b1 # 10000

\* The error of an update: target minus the probability in the Prediction
ErrorC(actual, pred) == (IF actual > 700 THEN 1000 ELSE 0) - pred.probability
ErrorB(actual, pred) == (IF actual THEN 10000 ELSE 0) - pred.probability

\* C7: there is no deduplication. updateModel applied twice with the same
\* (actual, prediction), the error nonzero and the snapshot present, moves
\* b1 and b2 (variant C) and the intercept (variant B) by 2 x 0.01 x error
\* in total, and the state after two applications differs from the state
\* after one.
C7_NoDeduplication ==
    (last.op = "updateModel" /\ last.repeat) =>
        /\ (variant = "engineC" /\ HasSnapshot(last.pred)
                /\ ErrorC(last.actual, last.pred) # 0) =>
               /\ b1 = last.before2.b1 + 2 * ErrorC(last.actual, last.pred)
               /\ b2 = last.before2.b2 + 2 * ErrorC(last.actual, last.pred)
               /\ Params # last.before
        /\ (variant = "engineB" /\ ErrorB(last.actual, last.pred) # 0) =>
               /\ weights.intercept
                      = last.before2.intercept + 2 * ErrorB(last.actual, last.pred)
               /\ weights # last.before

\* C7 happens: the same update was applied twice in a row to a Prediction
\* that carries its snapshot
C7_Witness ==
    /\ variant = "engineC"
    /\ last.op = "updateModel"
    /\ last.repeat
    /\ HasSnapshot(last.pred)
    /\ ErrorC(last.actual, last.pred) # 0
    /\ last.before2 # last.before

\* C8: p = getModelParameters(), resetModel(), setModelParameters(p) leaves
\* W1, b1, W2 and b2 as they were before the reset, so predictNextAbove7
\* returns the same result for the same sequence; and an updateModel after
\* the snapshot was taken does not change the snapshot.
C8_RoundTrip ==
    /\ (variant = "engineC" /\ last.op = "setModelParameters"
            /\ last.prev = "resetModel" /\ last.prev2 = "getModelParameters") =>
           /\ W1 = last.beforeReset.W1
           /\ b1 = last.beforeReset.b1
           /\ W2 = last.beforeReset.W2
           /\ b2 = last.beforeReset.b2
           /\ \A seq \in EngineSeqsC :
                  predictNextAbove7(seq) = last.shownBeforeReset[seq]
    /\ (variant = "engineC" /\ last.op = "updateModel") => snapshot = last.saved

\* C8 happens: learned parameters were saved, reset and imported again
C8_Witness ==
    /\ variant = "engineC"
    /\ last.op = "setModelParameters"
    /\ last.prev = "resetModel"
    /\ last.prev2 = "getModelParameters"
    /\ b1 # 10000
    /\ last.before.b1 = 10000

\* C9: categorize returns 0 for 1 <= x <= 2.5, 1 for 2.5 < x <= 3.75 and
\* 2 for 3.75 < x <= 5; for x < 1 or x > 5 it throws.
C9_Categorize ==
    (variant = "pure" /\ ret # Absent /\ ret.fn = "categorize") =>
        /\ (arg >= 100 /\ arg <= 250) => ret.out = [threw |-> FALSE, val |-> 0]
        /\ (arg > 250 /\ arg <= 375) => ret.out = [threw |-> FALSE, val |-> 1]
        /\ (arg > 375 /\ arg <= 500) => ret.out = [threw |-> FALSE, val |-> 2]
        /\ (arg # NaN /\ (arg < 100 \/ arg > 500)) => ret.out.threw

\* C9 happens: categorize was applied to the boundary 2.5
C9_Witness ==
    variant = "pure" /\ ret # Absent /\ ret.fn = "categorize" /\ arg = 250

\* C10: variant A validateInput returns valid = true exactly for a finite
\* x with 1 <= x <= 5; for every other input (x < 1, x > 5, NaN,
\* +/-Infinity) it returns valid = false with an error message.
C10_ValidateInput ==
    (variant = "pure" /\ ret # Absent /\ ret.fn = "validateInput") =>
        /\ ret.out.valid <=> (arg >= 100 /\ arg <= 500)
        /\ ~ret.out.valid => ("error" \in DOMAIN ret.out /\ ret.out.error # "")

\* C10 happens: validateInput was applied to -Infinity
C10_Witness ==
    variant = "pure" /\ ret # Absent /\ ret.fn = "validateInput" /\ arg = NegInf

\* The lag window of predictNext's argument: the states of the last
\* min(5, length) values, in order
LagWindow == SliceLast(MapCategorize(arg).val, 5)

LagStates == {LagWindow[i] : i \in 1..Len(LagWindow)}

StateOfLabel(label) == CHOOSE c \in 0..2 : getCategoryLabel(c) = label

PredictNextApplied == variant = "predictA" /\ ret # Absent /\ ret.fn = "predictNext"

\* C11: for every sequence of valid values, of any length including 0, the
\* confidence returned by variant A predictNext equals ((6 - u) / 5) * 100,
\* u being the number of distinct states among the last min(5, length)
\* values, and lies within [0, 100].
C11_ConfidenceFormula ==
    PredictNextApplied =>
        /\ ~ret.out.threw
        /\ ret.out.val.confidence = ((6 - Cardinality(LagStates)) * 100) \div 5
        /\ ret.out.val.confidence >= 0
        /\ ret.out.val.confidence <= 100

\* The states whose count in the lag window is maximal
Modes == {c \in LagStates : \A d \in LagStates : Occurrences(LagWindow, d) <= Occurrences(LagWindow, c)}

\* C12: for every non-empty sequence of valid values the label returned by
\* variant A predictNext names a state whose count among the last
\* min(5, length) states is maximal.
C12_LabelIsMode ==
    (PredictNextApplied /\ Len(arg) > 0) =>
        /\ ~ret.out.threw
        /\ StateOfLabel(ret.out.val.label) \in Modes

\* A window whose mode is unique, is not its last state and is not the
\* highest code in it
C12_Witness ==
    /\ PredictNextApplied
    /\ arg = <<440, 175, 175, 310, 175, 310>>
    /\ ret.out.val.label = "Low"

MaxOf(S) == CHOOSE c \in S : \A d \in S : d <= c

\* The position of the last occurrence of state c in the lag window
LastOccurrence(c) == MaxOf({i \in 1..Len(LagWindow) : LagWindow[i] = c})

\* C13 as stated: when several states tie for the highest count in the lag
\* window, predictNext returns the highest state code among the tied states.
C13_TieHighestCode ==
    (PredictNextApplied /\ Cardinality(Modes) >= 2) =>
        StateOfLabel(ret.out.val.label) = MaxOf(Modes)

\* C13 amended: when several states tie for the highest count in the lag
\* window, predictNext returns the tied state whose last occurrence in the
\* window is the latest.
C13_TieLastOccurring ==
    (PredictNextApplied /\ Cardinality(Modes) >= 2) =>
        \A c \in Modes : LastOccurrence(c) <= LastOccurrence(StateOfLabel(ret.out.val.label))

\* A tie between Low and High in which Low occurs last and is returned
C13_Witness ==
    /\ PredictNextApplied
    /\ Cardinality(Modes) >= 2
    /\ arg = <<440, 175, 440, 175>>
    /\ ret.out.val.label = "Low"

\* A step of handleRangeClick on the variant A page
RangeClickStep ==
    variant = "A" /\ steps' = steps + 1 /\ last'.op = "handleRangeClick"

\* No count of the stored matrix is lower after the step than before it
CountsDoNotDecrease ==
    \A key \in DOMAIN transitionMatrix :
        key \in DOMAIN transitionMatrix' /\ transitionMatrix'[key] >= transitionMatrix[key]

\* C14 as stated: the count of every ordered state pair in the stored
\* TransitionMatrix never decreases from one handleRangeClick to the next,
\* also once the Sequence has reached its 200-element cap.
C14_CountsNeverDecrease == [][RangeClickStep => CountsDoNotDecrease]_vars

\* C14 amended: the count of every ordered state pair in the stored
\* TransitionMatrix does not decrease in a handleRangeClick that finds fewer
\* than 200 values in the Sequence, so that its append evicts nothing.
C14_CountsGrowBelowCap ==
    [][(RangeClickStep /\ Len(sequence) < 200) => CountsDoNotDecrease]_vars

\* After a second click below the cap the pair Low -> Low counts 2
C14_Witness ==
    /\ variant = "A"
    /\ last.op = "handleRangeClick"
    /\ sequence = <<100, 175, 175>>
    /\ <<0, 0>> \in DOMAIN transitionMatrix
    /\ transitionMatrix[<<0, 0>>] = 2

\* The flag handleRangeClick computes: the displayed label names the range clicked
ClickWasCorrect ==
    /\ ~prediction.isNull
    /\ prediction.label = getCategoryLabel(categorize(last'.appended[1]).val)

\* The last 20 elements of a list, in order
Last20(list) ==
    IF Len(list) <= 20 THEN list
    ELSE [i \in 1..20 |-> list[i + Len(list) - 20]]

\* C15: on the variant A page RollingOutcomes never holds more than 20 flags,
\* and after each feedback it equals the last 20 elements of the old list
\* followed by the new flag.
C15_RollingOutcomesCapped ==
    [][variant = "A" =>
          /\ Len(rollingAccuracy) <= 20
          /\ Len(rollingAccuracy') <= 20
          /\ RangeClickStep =>
                rollingAccuracy' = Last20(rollingAccuracy \o <<ClickWasCorrect>>)]_vars

\* Two feedbacks after a restored list of 19 flags: the list holds 20 flags,
\* the oldest restored flag is gone and the others have moved up by one
C15_Witness ==
    /\ variant = "A"
    /\ last.op = "handleRangeClick"
    /\ Len(rollingAccuracy) = 20
    /\ Len(EarlierSession.rollingAccuracy) = 19
    /\ EarlierSession.rollingAccuracy[1] # EarlierSession.rollingAccuracy[2]
    /\ \A i \in 1..18 : rollingAccuracy[i] = EarlierSession.rollingAccuracy[i + 1]
    /\ rollingAccuracy[19] # rollingAccuracy[20]

\* The state right after variant B predictNext returned
PredictNextBReturned == variant = "engineB" /\ last.op = "predictNext"

\* C16: variant B predictNext on a sequence of length 0 or 1 returns the
\* neutral default (probability 0.5, predictedSpike false, confidence 0)
\* whatever the weights are, and leaves the weights unchanged.
C16_ShortSequenceNeutral ==
    (PredictNextBReturned /\ Len(last.seq) < 2) =>
        /\ held.probability = 5000
        /\ held.predictedSpike = FALSE
        /\ held.confidence = 0
        /\ weights = last.before

\* A one-value sequence predicted on with weights that updateModel has changed
C16_Witness ==
    /\ PredictNextBReturned
    /\ Len(last.seq) = 1
    /\ last.prev = "updateModel"
    /\ weights # DefaultWeights
    /\ held.probability = 5000

\* C17 as stated: for a sequence of length >= 2 the returned predictedSpike
\* is true exactly when the returned probability is greater than 0.5.
C17_SpikeIffProbabilityAboveHalf ==
    (PredictNextBReturned /\ Len(last.seq) >= 2) =>
        (held.predictedSpike <=> held.probability > 5000)

\* C17 amended: for a sequence of length >= 2 the returned predictedSpike is
\* true whenever the returned probability is greater than 0.5 and false
\* whenever it is less than 0.5; at a returned probability of exactly 0.5
\* (the probability before rounding to 4 decimals may lie above it) it can
\* be either.
C17_SpikeFollowsUnroundedProbability ==
    (PredictNextBReturned /\ Len(last.seq) >= 2) =>
        /\ held.probability > 5000 => held.predictedSpike
        /\ held.probability < 5000 => ~held.predictedSpike

\* A spike predicted with a returned probability of 0.5
C17_Witness ==
    /\ PredictNextBReturned
    /\ Len(last.seq) >= 2
    /\ held.predictedSpike
    /\ held.probability = 5000

\* C18: the returned certaintyLabel agrees with the returned confidence:
\* High when confidence >= 80, Medium when 60 <= confidence < 80, Low when
\* confidence < 60.
C18_LabelAgreesWithConfidence ==
    PredictNextBReturned =>
        held.certaintyLabel = (IF held.confidence >= 80 THEN "High Certainty"
                               ELSE IF held.confidence >= 60 THEN "Medium Certainty"
                               ELSE "Low Certainty")

\* C19: for every non-empty sequence variant C predictNextAbove7 returns
\* willExceed7 = true exactly when probability > 0.55; a probability in
\* (0.5, 0.55] yields willExceed7 = false.
C19_DecisionAtThreshold ==
    (variant = "engineC" /\ ~held.isNull /\ HasSnapshot(held)) =>
        (held.willExceed7 <=> held.probability > 550)

\* A prediction whose probability lies in (0.5, 0.55]: not above 7, with a
\* confidence that counts the distance from 0.5
C19_Witness ==
    /\ variant = "engineC"
    /\ last.op = "predictNextAbove7"
    /\ HasSnapshot(held)
    /\ held.probability > 500
    /\ held.probability <= 550
    /\ ~held.willExceed7
    /\ held.confidence > 0

\* The state holds a Prediction returned by variant B predictNext or by
\* variant C predictNextAbove7
PredictionReturnedB == variant = "engineB" /\ ~held.isNull
PredictionReturnedC == variant = "engineC" /\ ~held.isNull

WeightedMeanApplied == variant = "weightedMean" /\ ret # Absent /\ ret.fn = "weightedMean"

\* The values weightedMean looks at: the last 10 of the sequence
MeanWindow == {i \in 1..Len(arg) : i > Len(arg) - 10}

NoneInWindow(mode) == \A i \in MeanWindow : categorize(arg[i]).val # mode

\* C21: whenever none of the last 10 values of the sequence has category
\* mode, weightedMean(sequence, mode) returns the fixed midpoint of the
\* category (Low 1.75, Mid 3.10, High 4.40), also when an older value of the
\* sequence has that category.
C21_MidpointWhenNoneInWindow ==
    (WeightedMeanApplied /\ NoneInWindow(ret.mode))
        => ret.out = Returned(IF ret.mode = 0 THEN 175 ELSE IF ret.mode = 1 THEN 310 ELSE 440)

\* An older Low value 1.00 precedes ten Mid and High values, and mode is Low
C21_Witness ==
    /\ WeightedMeanApplied
    /\ Len(arg) = 11
    /\ arg[1] = 100
    /\ ret.mode = 0
    /\ NoneInWindow(0)
    /\ ret.out = Returned(175)

IsPrefix(s, t) == Len(s) <= Len(t) /\ SubSeq(t, 1, Len(s)) = s

\* What the engine predicts for the page's Sequence with the parameters in effect
EnginePrediction ==
    IF variant = "A" THEN predictNext(sequence).val ELSE predictNextAbove7(sequence)

\* C22: in both pages, once the regeneration timer of a feedback event has
\* fired and no other timer is pending, the displayed prediction is the
\* engine's prediction for the current Sequence (in variant C with the current
\* parameters), also when an input submission or a further feedback came
\* between the feedback and the firing; the Sequence still begins with the
\* sequence the feedback produced, so no reset came between.
C22_PredictionFollowsSequence ==
    (variant \in {"A", "C"} /\ last.op = "timer" /\ timers = <<>>
        /\ IsPrefix(last.fired, sequence))
        => prediction = EnginePrediction

UpdateModelApplied ==
    variant = "engineC" /\ last.op = "updateModel" /\ HasSnapshot(last.pred)

\* C23: variant C updateModel with a present snapshot computes target = 1 if
\* actualValue > 7 (strictly) else 0 and error = target - probability, then
\* adds 0.01*error*F[i] to each of the 8 components of W1, 0.01*error to b1,
\* 0.01*error*h to W2 and 0.01*error to b2, with F and h the features and the
\* hiddenActivation stored in the passed Prediction.
C23_UpdateFormula ==
    UpdateModelApplied =>
        LET target == IF last.actual > 700 THEN 1000 ELSE 0
            err == target - last.pred.probability
            F == last.pred.features
            h == last.pred.hiddenActivation
        IN  /\ \A i \in 1..8 : W1[i] = last.before.W1[i] + MulDiv(err, F[i], 100)
            /\ b1 = last.before.b1 + err
            /\ W2 = last.before.W2 + MulDiv(err, h, 1000)
            /\ b2 = last.before.b2 + err

\* updateModel(7, p) where the parameters have moved since p was computed, so
\* that the stored hiddenActivation is not the one the current parameters give
C23_Witness ==
    /\ UpdateModelApplied
    /\ last.actual = 700
    /\ last.pred.hiddenActivation
          # tanh(HiddenInput(last.pred.features, last.before.W1, last.before.b1))
    /\ b1 = last.before.b1 - last.pred.probability
    /\ W2 # last.before.W2

StatePairs == (0..2) \X (0..2)

\* The adjacent positions of the Sequence that hold the pair of states
PairPositions(pair) ==
    {i \in 1..(Len(sequence) - 1) :
        /\ categorize(sequence[i]).val = pair[1]
        /\ categorize(sequence[i + 1]).val = pair[2]}

RECURSIVE SumCounts(_, _)
SumCounts(matrix, keys) ==
    IF keys = {} THEN 0
    ELSE LET k == CHOOSE x \in keys : TRUE
         IN  matrix[k] + SumCounts(matrix, keys \ {k})

\* C24: after every handleRangeClick of the variant A page the stored
\* TransitionMatrix is the rebuild from the new capped Sequence: the count of
\* each ordered pair (a, b) is the number of adjacent positions holding a then
\* b, pairs that do not occur are absent, there are at most 9 keys and the
\* counts sum to the length minus 1.
C24_MatrixIsRebuild ==
    (variant = "A" /\ last.op = "handleRangeClick") =>
        /\ DOMAIN transitionMatrix \subseteq StatePairs
        /\ \A pair \in StatePairs :
              IF PairPositions(pair) = {} THEN pair \notin DOMAIN transitionMatrix
              ELSE /\ pair \in DOMAIN transitionMatrix
                   /\ transitionMatrix[pair] = Cardinality(PairPositions(pair))
        /\ Cardinality(DOMAIN transitionMatrix) <= 9
        /\ SumCounts(transitionMatrix, DOMAIN transitionMatrix) = Len(sequence) - 1

\* A click at the cap: the oldest value was evicted and 199 transitions remain
C24_Witness ==
    /\ variant = "A"
    /\ last.op = "handleRangeClick"
    /\ Len(sequence) = 200
    /\ sequence[1] = 500
    /\ sequence[200] = 310
    /\ transitionMatrix[<<2, 0>>] = 99
    /\ SumCounts(transitionMatrix, DOMAIN transitionMatrix) = 199

\* C25: variant A handleRangeClick(range) appends to the Sequence the
\* representative value of the clicked range (Low 1.75, Mid 3.10, High 4.40),
\* whose category under categorize is the clicked range, and appends to
\* RollingOutcomes a flag that is true exactly when the displayed prediction's
\* label equals the clicked range (false when no prediction is displayed).
C25_ClickAppendsRepresentative ==
    [][RangeClickStep =>
         LET range == last'.range
             rep == IF range = "Low" THEN 175 ELSE IF range = "Mid" THEN 310 ELSE 440
             flag == (~prediction.isNull) /\ prediction.label = range
         IN  /\ sequence'[Len(sequence')] = rep
             /\ Len(sequence) < 200 => sequence' = Append(sequence, rep)
             /\ getCategoryLabel(categorize(rep).val) = range
             /\ rollingAccuracy'[Len(rollingAccuracy')] = flag
             /\ Len(rollingAccuracy) < 20 => rollingAccuracy' = Append(rollingAccuracy, flag)]_vars

\* A click on Mid while Mid was predicted, after a click that missed
C25_Witness ==
    /\ variant = "A"
    /\ last.op = "handleRangeClick"
    /\ last.range = "Mid"
    /\ sequence[Len(sequence)] = 310
    /\ Len(rollingAccuracy) >= 2
    /\ rollingAccuracy[Len(rollingAccuracy)]
    /\ ~rollingAccuracy[Len(rollingAccuracy) - 1]

\* The input yields no number, or one of its numbers fails validateInput
InputFails(input) ==
    LET numbers == SelectSeq(ParseTokens(input), NotNaN)
    IN  \/ Len(numbers) = 0
        \/ \E i \in 1..Len(numbers) : ~validateInput(numbers[i]).valid

\* C26: in variant A handlePrediction, if a parsed number of the input fails
\* validateInput or the input yields no number, the Sequence, the displayed
\* prediction, RollingOutcomes and the TransitionMatrix are left unchanged and
\* an error message is set; the valid numbers of that input are not appended.
C26_RejectedInputChangesNothing ==
    [][(variant = "A" /\ last'.op = "handlePrediction" /\ InputFails(last'.input)) =>
         /\ sequence' = sequence
         /\ prediction' = prediction
         /\ rollingAccuracy' = rollingAccuracy
         /\ transitionMatrix' = transitionMatrix
         /\ error' # ""]_vars

\* "2.5, 5.01" was rejected while a prediction was displayed after a click:
\* the valid 2.5 is not in the Sequence
C26_Witness ==
    /\ variant = "A"
    /\ last.op = "handlePrediction"
    /\ last.input = <<"2.5", "5.01">>
    /\ error = "Value must be between 1.00 and 5.00"
    /\ ~prediction.isNull
    /\ Len(rollingAccuracy) > 0
    /\ DOMAIN transitionMatrix # {}
    /\ \A i \in 1..Len(sequence) : sequence[i] # 250

\* C27: in both pages the displayed prediction is null after handleReset and
\* stays null until the next successful handlePrediction, also when a timer of
\* an earlier feedback is pending at the reset. The Sequence is empty from a
\* reset to the next append, and with no prediction on display the next append
\* is a successful handlePrediction.
C27_NullUntilNextPrediction ==
    (variant \in {"A", "C"} /\ sequence = <<>>) => prediction.isNull

\* The parameters after a reload of the variant C page: the module's initial
\* values, then the load effect's setModelParameters of the stored entry
ReloadedParameters ==
    IF localStorage["modelParameters"].has
    THEN setModelParameters(localStorage["modelParameters"].v)
    ELSE [W1 |-> DefaultW1, b1 |-> DefaultB1, W2 |-> DefaultW2, b2 |-> DefaultB2]

\* C28: on the variant C page, after every completed handleFeedback and
\* handleReset the persisted modelParameters entry equals the in-memory
\* parameters, or it is absent while the in-memory parameters are the
\* defaults; a reload therefore restores the parameters in effect before it.
C28_PersistedParametersCurrent ==
    (variant = "C" /\ last.op \in {"handleFeedback", "handleReset"} /\ ~last.rejected) =>
        /\ \/ localStorage["modelParameters"] = Stored(Params)
           \/ /\ localStorage["modelParameters"] = Absent
              /\ W1 = <<20000, 50000, 80000, -40000, 60000, 30000, -20000, 50000>>
              /\ b1 = 10000
              /\ W2 = 240000
              /\ b2 = -300000
        /\ ReloadedParameters = Params

\* C29: on the variant C page, from a fresh session,
\* 0 <= correctPredictions <= totalPredictions in every reachable state; a
\* handleFeedback with a displayed prediction adds exactly 1 to
\* totalPredictions, and 1 to correctPredictions exactly when the
\* prediction's willExceed7 equals (actualValue > 7); a handleFeedback with no
\* displayed prediction changes neither counter, the Sequence nor the
\* parameters.
C29_CountersFollowFeedback ==
    variant = "C" =>
        /\ 0 <= correctPredictions
        /\ correctPredictions <= totalPredictions
        /\ (last.op = "handleFeedback" /\ ~last.rejected) =>
               /\ totalPredictions = last.before.total + 1
               /\ correctPredictions = last.before.correct
                      + (IF prediction.willExceed7 = (last.appended[1] > 700) THEN 1 ELSE 0)
        /\ (last.op = "handleFeedback" /\ last.rejected) =>
               /\ totalPredictions = last.before.total
               /\ correctPredictions = last.before.correct
               /\ sequence = last.before.sequence
               /\ Params = last.before.params

\* A feedback that was counted as a miss after one counted as a hit
C29_Witness ==
    /\ variant = "C"
    /\ last.op = "handleFeedback"
    /\ ~last.rejected
    /\ last.appended = <<900>>
    /\ ~prediction.willExceed7
    /\ totalPredictions = 2
    /\ correctPredictions = 1

\* The held variant C prediction was computed from features none of which
\* makes generateReasoning report a factor: last value, mean and trend and
\* standard deviation at or below 7, 7, 2 and 3
NoFactorFires ==
    /\ variant = "engineC"
    /\ ~held.isNull
    /\ HasSnapshot(held)
    /\ ~Gt(held.features[5], 700)
    /\ ~Gt(held.features[2], 700)
    /\ ~Gt(held.features[4], 200)
    /\ ~Gt(held.features[3], 300)

\* The reasoning of the held prediction says that the next value will exceed 7
ReasoningSaysExceed ==
    \E i \in 1..Len(held.reasoning) :
        held.reasoning[i].factor
            = "Model suggests next value will exceed 7 based on pattern analysis."

\* C30: for every variant C prediction in which no explanatory factor fires,
\* the reasoning text states that the next value will exceed 7 exactly when
\* willExceed7 is true.
C30_ReasoningAgreesWithDecision ==
    NoFactorFires => (ReasoningSaysExceed <=> held.willExceed7)

====
